---- MODULE Spec2Model ----
(***************************************************************************)
(* A model of the NAPALM Nokia OLT driver (napalm-nokia_olt).  The driver  *)
(* exists in two variants: the packaged one                                *)
(* (src/napalm_nokia_olt/napalm_nokia_olt/nokia_olt.py, "nested") and the  *)
(* older top-level one (src/napalm_nokia_olt/nokia_olt.py, "top").         *)
(*                                                                         *)
(* Text is modelled at the granularity the code inspects it:               *)
(*   - an XML reply is a sequence of lines, a line a sequence of tokens    *)
(*     (open tag with its name attribute, close tag, character data);      *)
(*   - a prose reply is a sequence of lines, a line a sequence of words;   *)
(*   - a text the code takes apart character by character (an interface   *)
(*     index, the raw buffer of the escape filter) is a sequence of        *)
(*     one-character strings.                                              *)
(***************************************************************************)
EXTENDS Integers, Sequences, FiniteSets, TLC

VARIABLES variant, op, pc, sent, replies, outcome, result, error, ports,
          buf, filtered, refiltered, raw, sanitized, self, commands

vars == <<variant, op, pc, sent, replies, outcome, result, error, ports,
          buf, filtered, refiltered, raw, sanitized, self, commands>>

callVars == <<variant, op, pc, sent, replies, outcome, result, error, ports>>
filterVars == <<buf, filtered, refiltered>>

\* raw: what device.send_command returned for each command of the call;
\* sanitized: the local "root" of convert_xml_to_list; self: the attributes
\* of the driver object; commands: the argument of cli.
restVars == <<raw, sanitized, self, commands>>

\* Python's None (the text of an empty element, a function falling off its end).
None == "None"

\* An element without the attribute "name".
NoAttr == "<no name attribute>"

-----------------------------------------------------------------------------
(* The driver object.                                                      *)

\* self.hostname, as given to the constructor.
Hostname == "olt1"

\* The handle ConnectHandler returns, and the handle after disconnect().
Connected == "connected"
Disconnected == "disconnected"

\* __init__(hostname, username, password) with the default timeout and no
\* optional_args.
NewDriver ==
    [ transport |-> "ssh", hostname |-> Hostname, username |-> "admin",
      password |-> "secret", timeout |-> 60, netmiko_optional_args |-> <<>>,
      global_delay_factor |-> 1, port |-> 22, device |-> None,
      config_replace |-> FALSE, interface_map |-> <<>>,
      profile |-> <<"sros_isam">> ]

\* The session is open: open() has set self.device.
SessionOpen == self = [NewDriver EXCEPT !.device = Connected]

-----------------------------------------------------------------------------
(* Generic helpers on sequences and dictionaries.                          *)

Range(s) == {s[i] : i \in DOMAIN s}

\* d[k] = v on a Python dict modelled as a function.
Put(d, k, v) == (k :> v) @@ d

EmptyDict == <<>>

\* dict.get(k, default)
Get(d, k, default) == IF k \in DOMAIN d THEN d[k] ELSE default

RECURSIVE Flatten(_)
\* The concatenation of a sequence of sequences.
Flatten(ss) == IF ss = <<>> THEN <<>> ELSE Head(ss) \o Flatten(Tail(ss))

\* "sub in s" on character sequences.
Contains(s, sub) ==
    \E i \in 1..(Len(s) - Len(sub) + 1) : SubSeq(s, i, i + Len(sub) - 1) = sub

\* All sequences over S of length at most n.
SeqsUpTo(S, n) == UNION {[1..k -> S] : k \in 0..n}

-----------------------------------------------------------------------------
(* XML text and xml.etree.ElementTree.                                     *)

Open(tag, name) == [k |-> "open", tag |-> tag, name |-> name, text |-> None]
Close(tag) == [k |-> "close", tag |-> tag, name |-> NoAttr, text |-> None]
Text(v) == [k |-> "text", tag |-> "", name |-> NoAttr, text |-> v]

\* White space within a line (indentation, a blank before a control sequence).
WS == Text(" ")

IsSpace(t) == t.k = "text" /\ t.text = " "

\* A terminal control sequence in the text: ESC and the characters of code.
Esc(code) == [k |-> "esc", tag |-> "", name |-> NoAttr, text |-> code]

\* <tag name="name">v</tag>; an empty element when v is None.
Leaf(tag, name, v) ==
    IF v = None THEN <<Open(tag, name), Close(tag)>>
    ELSE <<Open(tag, name), Text(v), Close(tag)>>

HasChild(nodes, i) == \E j \in DOMAIN nodes : nodes[j].parent = i

RECURSIVE ParseFrom(_, _, _, _)
\* The expat parse of a token stream: nodes in document order, each with its
\* parent's index (0 for the root).  ok is FALSE for ParseError: no element,
\* character data other than white space or a second element outside the
\* root, a mismatched or missing close tag, the character ESC.
ParseFrom(toks, i, nodes, stack) ==
    IF i > Len(toks)
    THEN [ok |-> stack = <<>> /\ nodes # <<>>, nodes |-> nodes]
    ELSE LET t == toks[i]
             top == IF stack = <<>> THEN 0 ELSE stack[Len(stack)]
         IN  CASE t.k = "open" ->
                    IF stack = <<>> /\ nodes # <<>>
                    THEN [ok |-> FALSE, nodes |-> <<>>]
                    ELSE ParseFrom(toks, i + 1,
                                   Append(nodes, [tag |-> t.tag, name |-> t.name,
                                                  text |-> None, parent |-> top]),
                                   Append(stack, Len(nodes) + 1))
               [] t.k = "close" ->
                    IF stack = <<>> \/ nodes[top].tag # t.tag
                    THEN [ok |-> FALSE, nodes |-> <<>>]
                    ELSE ParseFrom(toks, i + 1, nodes, SubSeq(stack, 1, Len(stack) - 1))
               [] t.k = "esc" -> [ok |-> FALSE, nodes |-> <<>>]
               [] OTHER ->
                    IF stack = <<>>
                    THEN IF IsSpace(t) THEN ParseFrom(toks, i + 1, nodes, stack)
                         ELSE [ok |-> FALSE, nodes |-> <<>>]
                    ELSE IF HasChild(nodes, top)
                         THEN ParseFrom(toks, i + 1, nodes, stack)
                         ELSE ParseFrom(toks, i + 1,
                                        [nodes EXCEPT ![top].text =
                                            IF @ = None THEN t.text ELSE @ \o t.text],
                                        stack)

\* ET.fromstring(text) of a reply given as lines of tokens.
FromString(lines) == ParseFrom(Flatten(lines), 1, <<>>, <<>>)

RECURSIVE IsInSubtree(_, _, _)
\* Node j is node i or one of its descendants.
IsInSubtree(nodes, j, i) ==
    IF j = i THEN TRUE
    ELSE IF j = 0 THEN FALSE
    ELSE IsInSubtree(nodes, nodes[j].parent, i)

\* elem.iter(): the element and its descendants, in document order.
Iter(nodes, i) ==
    SelectSeq([j \in DOMAIN nodes |-> j], LAMBDA j : IsInSubtree(nodes, j, i))

\* root.findall('.//tag'): the descendants of the root with that tag.
FindAllDeep(nodes, tag) ==
    SelectSeq([j \in DOMAIN nodes |-> j],
              LAMBDA j : j # 1 /\ nodes[j].tag = tag)

\* root.findall('.//hierarchy[@name="n"]')
FindHierarchy(nodes, n) ==
    SelectSeq(FindAllDeep(nodes, "hierarchy"), LAMBDA j : nodes[j].name = n)

\* root.findall("instance"): the children of the root with tag instance.
FindAllChildren(nodes, tag) ==
    SelectSeq([j \in DOMAIN nodes |-> j],
              LAMBDA j : nodes[j].parent = 1 /\ nodes[j].tag = tag)

\* The children of node i, in document order.
Children(nodes, i) ==
    SelectSeq([j \in DOMAIN nodes |-> j], LAMBDA j : nodes[j].parent = i)

\* str.replace(" ", "_") on the attribute names of the model: the one name
\* of the device's dialect that holds a space is "association type".
ReplaceSpaces(name) ==
    IF name = "association type" THEN "association_type" ELSE name

RECURSIVE ElemDictSkipUnnamed(_, _, _, _)
\* The loop with an element without a name attribute passed over.
ElemDictSkipUnnamed(nodes, js, k, data) ==
    IF k > Len(js) THEN [ok |-> TRUE, data |-> data]
    ELSE LET e == nodes[js[k]]
         IN  IF e.tag = "instance" \/ e.name = NoAttr
             THEN ElemDictSkipUnnamed(nodes, js, k + 1, data)
             ELSE ElemDictSkipUnnamed(nodes, js, k + 1,
                                      Put(data, ReplaceSpaces(e.name), e.text))

RECURSIVE ElemDictFirstWins(_, _, _, _)
\* The loop with a key that is already there left as it is.
ElemDictFirstWins(nodes, js, k, data) ==
    IF k > Len(js) THEN [ok |-> TRUE, data |-> data]
    ELSE LET e == nodes[js[k]]
         IN  IF e.tag = "instance" THEN ElemDictFirstWins(nodes, js, k + 1, data)
             ELSE IF e.name = NoAttr THEN [ok |-> FALSE, data |-> data]
             ELSE IF ReplaceSpaces(e.name) \in DOMAIN data
             THEN ElemDictFirstWins(nodes, js, k + 1, data)
             ELSE ElemDictFirstWins(nodes, js, k + 1,
                                    Put(data, ReplaceSpaces(e.name), e.text))

RECURSIVE ElemDictFrom(_, _, _, _)
\* for e in elem.iter(): skip the instance tag, data[key_name] = key_value
ElemDictFrom(nodes, js, k, data) ==
    IF k > Len(js) THEN [ok |-> TRUE, data |-> data]
    ELSE LET e == nodes[js[k]]
         IN  IF e.tag = "instance" THEN ElemDictFrom(nodes, js, k + 1, data)
             ELSE IF e.name = NoAttr THEN [ok |-> FALSE, data |-> data]
             ELSE ElemDictFrom(nodes, js, k + 1,
                               Put(data, ReplaceSpaces(e.name), e.text))

\* _convert_xml_elem_to_dict(elem): ok is FALSE for the KeyError of an
\* element without a name attribute.
ConvertXmlElemToDict(nodes, i) == ElemDictFrom(nodes, Iter(nodes, i), 1, EmptyDict)

-----------------------------------------------------------------------------
(* Prose replies: lines of words.                                          *)

\* "sub in word" for the words of the model: apart from equality, the one
\* word that holds another is "Uptime" (it holds "Up").
WordContains(w, sub) == w = sub \/ (w = "Uptime" /\ sub = "Up")

\* "sub in line" for a sub without blanks.
LineContains(line, sub) == \E i \in DOMAIN line : WordContains(line[i], sub)

RECURSIVE JoinWords(_)
\* " ".join(words)
JoinWords(ws) ==
    IF ws = <<>> THEN ""
    ELSE IF Len(ws) = 1 THEN ws[1]
    ELSE ws[1] \o " " \o JoinWords(Tail(ws))

\* list.index(x): 0 stands for the ValueError of an absent x.
IndexOf(ws, x) ==
    IF \E i \in DOMAIN ws : ws[i] = x
    THEN CHOOSE i \in DOMAIN ws : ws[i] = x /\ \A j \in 1..(i - 1) : ws[j] # x
    ELSE 0

RECURSIVE MakeDeviceModelFrom(_, _)
MakeDeviceModelFrom(lines, i) ==
    IF i > Len(lines) THEN [ok |-> TRUE, err |-> "", val |-> None]
    ELSE LET line == lines[i]
             n == IndexOf(line, "NOKIA")
         IN  IF LineContains(line, "Copyright") /\ LineContains(line, "NOKIA")
             THEN IF n = 0 THEN [ok |-> FALSE, err |-> "ValueError", val |-> None]
                  ELSE IF n + 2 > Len(line)
                  THEN [ok |-> FALSE, err |-> "IndexError", val |-> None]
                  ELSE [ok |-> TRUE, err |-> "",
                        val |-> line[n + 1] \o " " \o line[n + 2]]
             ELSE MakeDeviceModelFrom(lines, i + 1)

\* make_device_model(data): the two words after NOKIA on the first
\* copyright line; None when data is empty or holds no such line.
MakeDeviceModel(data) == MakeDeviceModelFrom(data, 1)

-----------------------------------------------------------------------------
(* Interface indexes: character sequences.                                 *)

Digits == <<"0", "1", "2", "3", "4", "5", "6", "7", "8", "9">>

IsDigit(c) == \E d \in DOMAIN Digits : Digits[d] = c

DigitVal(c) == (CHOOSE d \in DOMAIN Digits : Digits[d] = c) - 1

\* ord(c) for the characters of the model.
Ord(c) ==
    CASE c = "/" -> 47
      [] IsDigit(c) -> 48 + DigitVal(c)
      [] c = ":" -> 58
      [] c = "a" -> 97
      [] c = "l" -> 108
      [] c = "n" -> 110
      [] c = "v" -> 118
      [] OTHER -> 0

RECURSIVE SplitFrom(_, _, _, _)
SplitFrom(s, sep, i, cur) ==
    IF i > Len(s) THEN <<cur>>
    ELSE IF s[i] = sep THEN <<cur>> \o SplitFrom(s, sep, i + 1, <<>>)
    ELSE SplitFrom(s, sep, i + 1, Append(cur, s[i]))

\* s.split(sep) for a one-character separator.
Split(s, sep) == SplitFrom(s, sep, 1, <<>>)

\* int(s) accepts s: a non-empty run of digits.
IsInt(s) == s # <<>> /\ \A i \in DOMAIN s : IsDigit(s[i])

RECURSIVE ToInt(_)
\* int(s) of a run of digits.
ToInt(s) ==
    IF s = <<>> THEN 0 ELSE 10 * ToInt(SubSeq(s, 1, Len(s) - 1)) + DigitVal(s[Len(s)])

\* The characters of the texts that the model takes apart (TLA+ strings
\* cannot be indexed).
Chars(s) ==
    CASE s = "1/2" -> <<"1", "/", "2">>
      [] s = "1/10" -> <<"1", "/", "1", "0">>
      [] s = "1/1/1/2" -> <<"1", "/", "1", "/", "1", "/", "2">>
      [] s = "1/1/1/10" -> <<"1", "/", "1", "/", "1", "/", "1", "0">>
      [] s = "vlan:1" -> <<"v", "l", "a", "n", ":", "1">>
      [] s = "vlan" -> <<"v", "l", "a", "n">>
      [] s = "10" -> <<"1", "0">>
      [] s = "20" -> <<"2", "0">>
      [] s = "30" -> <<"3", "0">>
      [] s = "vlan-port" -> <<"v", "l", "a", "n", "-", "p", "o", "r", "t">>
      [] s = "uni" -> <<"u", "n", "i">>
      [] s = "1/1/1/1" -> <<"1", "/", "1", "/", "1", "/", "1">>
      [] s = "1/1/1/3" -> <<"1", "/", "1", "/", "1", "/", "3">>
      [] s = "uni:1/1/1/1" -> <<"u", "n", "i", ":", "1", "/", "1", "/", "1", "/", "1">>
      [] s = "uni:1/1/1/2" -> <<"u", "n", "i", ":", "1", "/", "1", "/", "1", "/", "2">>
      [] s = "vlan-port:1/1/1/1:10" ->
            <<"v", "l", "a", "n", "-", "p", "o", "r", "t", ":",
              "1", "/", "1", "/", "1", "/", "1", ":", "1", "0">>
      [] s = "vlan-port:1/1/1/2:10" ->
            <<"v", "l", "a", "n", "-", "p", "o", "r", "t", ":",
              "1", "/", "1", "/", "1", "/", "2", ":", "1", "0">>

\* The texts of the table above, and the text of a sequence of characters.
Texts ==
    {"1/2", "1/10", "1/1/1/2", "1/1/1/10", "vlan:1", "vlan", "10", "20", "30",
     "vlan-port", "uni", "1/1/1/1", "1/1/1/3", "uni:1/1/1/1", "uni:1/1/1/2",
     "vlan-port:1/1/1/1:10", "vlan-port:1/1/1/2:10"}

Str(cs) == CHOOSE s \in Texts : Chars(s) = cs

\* The sort key of the nested variant: list(map(int, p.split("/"))).
IndexKey(p) ==
    LET parts == Split(Chars(p), "/") IN [i \in DOMAIN parts |-> ToInt(parts[i])]

\* The key can be computed: every component of p is an integer.
HasIndexKey(p) ==
    LET parts == Split(Chars(p), "/") IN \A i \in DOMAIN parts : IsInt(parts[i])

\* Python's < on lists of integers.
IntListLess(a, b) ==
    \/ \E i \in 1..Len(a) :
          /\ i <= Len(b)
          /\ a[i] < b[i]
          /\ \A j \in 1..(i - 1) : a[j] = b[j]
    \/ Len(a) < Len(b) /\ \A j \in 1..Len(a) : a[j] = b[j]

\* Python's < on str: by code point, a proper prefix first.
CharsLess(a, b) ==
    \/ \E i \in 1..Len(a) :
          /\ i <= Len(b)
          /\ Ord(a[i]) < Ord(b[i])
          /\ \A j \in 1..(i - 1) : a[j] = b[j]
    \/ Len(a) < Len(b) /\ \A j \in 1..Len(a) : a[j] = b[j]

StrLess(a, b) == CharsLess(Chars(a), Chars(b))

KeyLess(a, b) == IntListLess(IndexKey(a), IndexKey(b))

\* The order list.sort compares by: with the key of the nested variant
\* (by = "key") or as plain strings (by = "str").
Less(by, a, b) == IF by = "key" THEN KeyLess(a, b) ELSE StrLess(a, b)

\* The place of x in a sorted list: after every element not greater than it
\* (list.sort is stable).
InsertAt(sorted, x, by) ==
    LET after == {i \in DOMAIN sorted : ~Less(by, x, sorted[i])}
        n == IF after = {} THEN 0 ELSE CHOOSE i \in after : \A j \in after : j <= i
    IN  SubSeq(sorted, 1, n) \o <<x>> \o SubSeq(sorted, n + 1, Len(sorted))

RECURSIVE SortBy(_, _, _)
SortBy(s, by, i) ==
    IF i = 0 THEN <<>> ELSE InsertAt(SortBy(s, by, i - 1), s[i], by)

\* port_list.sort(key=lambda p: list(map(int, p.split("/")))) (nested).
SortByIndexKey(s) == SortBy(s, "key", Len(s))

\* port_list.sort() (top).
SortStr(s) == SortBy(s, "str", Len(s))

-----------------------------------------------------------------------------
(* _strip_ansi_escape_codes (top variant): text as a sequence of           *)
(* characters.                                                             *)

\* chr(27)
ESC == "ESC"

DigitChars == Range(Digits)

\* \s; VT stands for the vertical tab.
WhiteSpace == {" ", "\t", "\n", "\r", "\f", "VT"}

\* The group the code puts in front of every code: (-|\\|\/|\s|\|)
PrefixChars == {"-", "\\", "/", "|"} \cup WhiteSpace

\* The atoms of a pattern: one character of a set, or a run of them.
One(cs) == [cs |-> cs, rep |-> "1"]
Plus(cs) == [cs |-> cs, rep |-> "+"]
Star(cs) == [cs |-> cs, rep |-> "*"]
Lit(c) == One({c})
D == One(DigitChars)

\* The codes in the order of code_set; a code is the sequence of its
\* alternatives, an alternative a sequence of atoms after ESC.
CodeSet ==
    << <<<<Lit("["), Plus(DigitChars), Lit(";"), Plus(DigitChars), Lit("H")>>>>,
       <<<<Lit("["), Lit("?"), Lit("2"), Lit("5"), Lit("h")>>>>,
       <<<<Lit("["), Lit("2"), Lit("K")>>>>,
       <<<<Lit("["), Plus(DigitChars), Lit(";"), Plus(DigitChars), Lit("r")>>>>,
       <<<<Lit("["), Lit("K")>>>>,
       <<<<Lit("["), Lit("1"), Lit("M")>>>>,
       <<<<Lit("["), Lit("?"), Lit("7"), Lit("l")>>>>,
       <<<<Lit("["), Lit("K")>>>>,
       <<<<Lit("["), Lit("?"), Plus(DigitChars), Lit("l")>>>>,
       <<<<Lit("["), Lit("0"), Lit("0"), Lit("m")>>>>,
       <<<<Lit("["), Lit("2"), Lit("J")>>>>,
       <<<<Lit("["), D, Lit("m")>>>>,
       <<<<Lit("["), D, D, Lit(";"), D, D, Lit("m")>>>>,
       <<<<Lit("["), D, D, Lit(";"), D, D, Lit(";"), D, D, Lit("m")>>>>,
       <<<<Lit("["), One({"3", "4"}), D, Lit("m")>>>>,
       <<<<Lit("["), Lit("9"), One({"0", "1", "2", "3", "4", "5", "6", "7"}), Lit("m")>>,
         <<Lit("["), Lit("1"), Lit("0"),
           One({"0", "1", "2", "3", "4", "5", "6", "7"}), Lit("m")>>>>,
       <<<<Lit("["), Lit("6"), Lit("n")>>>>,
       <<<<Lit("["), Lit("m")>>>>,
       <<<<Lit("["), Lit("2"), Lit("J")>>>>,
       <<<<Lit("["), Lit("J")>>>>,
       <<<<Lit("["), Lit("0"), Lit("m")>>>>,
       <<<<Lit("["), Lit("7"), Lit("m")>>>>,
       <<<<Lit("["), Plus(DigitChars), Lit("D")>>>>,
       <<<<Lit("["), Star(DigitChars), Lit("A")>>>>,
       <<<<Lit("["), Star(DigitChars), Lit("B")>>>>,
       <<<<Lit("["), Star(DigitChars), Lit("C")>>>>,
       <<<<Lit("["), Lit("?"), Lit("7"), Lit("h")>>>>,
       <<<<Lit("["), Lit("?"), Lit("2"), Lit("0"), Lit("0"), Lit("4"), Lit("h")>>>> >>

RECURSIVE RunEnd(_, _, _)
\* The first position at or after i whose character is not in cs.
RunEnd(s, i, cs) ==
    IF i <= Len(s) /\ s[i] \in cs THEN RunEnd(s, i + 1, cs) ELSE i

RECURSIVE MatchAtoms(_, _, _, _)
\* The position after the match of atoms[a..] at position i of s, 0 when
\* there is none.  A run is taken whole: in every code the atom after a run
\* is a character outside the run's set.
MatchAtoms(atoms, a, s, i) ==
    IF a > Len(atoms) THEN i
    ELSE IF atoms[a].rep = "*"
    THEN MatchAtoms(atoms, a + 1, s, RunEnd(s, i, atoms[a].cs))
    ELSE IF ~(i <= Len(s) /\ s[i] \in atoms[a].cs) THEN 0
    ELSE IF atoms[a].rep = "+"
    THEN MatchAtoms(atoms, a + 1, s, RunEnd(s, i, atoms[a].cs))
    ELSE MatchAtoms(atoms, a + 1, s, i + 1)

RECURSIVE MatchAlts(_, _, _, _)
\* The first alternative of a code that matches at position i.
MatchAlts(alts, k, s, i) ==
    IF k > Len(alts) THEN 0
    ELSE LET e == MatchAtoms(alts[k], 1, s, i)
         IN  IF e # 0 THEN e ELSE MatchAlts(alts, k + 1, s, i)

\* The pattern of the code as re.sub gets it: a prefix character, ESC, the code.
MatchCode(alts, s, i) ==
    IF i + 1 <= Len(s) /\ s[i] \in PrefixChars /\ s[i + 1] = ESC
    THEN MatchAlts(alts, 1, s, i + 2)
    ELSE 0

RECURSIVE SubFrom(_, _, _)
\* re.sub(pattern, "", output): the matches from left to right, none
\* overlapping another.
SubFrom(alts, s, i) ==
    IF i > Len(s) THEN <<>>
    ELSE LET e == MatchCode(alts, s, i)
         IN  IF e # 0 THEN SubFrom(alts, s, e)
             ELSE <<s[i]>> \o SubFrom(alts, s, i + 1)

RECURSIVE StripFrom(_, _)
\* for ansi_esc_code in code_set: output = re.sub(..., "", output)
StripFrom(output, k) ==
    IF k > Len(CodeSet) THEN output
    ELSE StripFrom(SubFrom(CodeSet[k], output, 1), k + 1)

\* _strip_ansi_escape_codes(string_buffer)
StripAnsiEscapeCodes(string_buffer) == StripFrom(string_buffer, 1)

\* The characters of the codes the replies of the model hold.
CodeChars(code) ==
    CASE code = "[K" -> <<"[", "K">>
      [] code = "[1;1H" -> <<"[", "1", ";", "1", "H">>
      [] OTHER -> <<"[", "5", "n">>

\* The filter deletes the control sequence together with the white space
\* before it.
Deleted(code) == StripAnsiEscapeCodes(<<" ", ESC>> \o CodeChars(code)) = <<>>

\* The line and position of the control sequence of a reply, <<0, 0>> when
\* it holds none.  (A reply of the model holds at most one.)
EscAt(lines) ==
    LET at == UNION {{<<i, j>> : j \in {n \in DOMAIN lines[i] : lines[i][n].k = "esc"}} :
                       i \in DOMAIN lines}
    IN  IF at = {} THEN <<0, 0>> ELSE CHOOSE x \in at : TRUE

RemoveAt(s, j) == SubSeq(s, 1, j - 1) \o SubSeq(s, j + 1, Len(s))

\* _strip_ansi_escape_codes on a reply given as lines of tokens.  A code of
\* the catalog is deleted when a prefix character stands before it: the
\* blank before it goes with it, and at the start of a line the line break
\* goes with it, which joins the line to the one before.  A tag ends with
\* ">" and the texts of the model end with a letter or a digit, so nothing
\* else in a reply is a prefix character.
FilterReply(lines) ==
    LET i == EscAt(lines)[1]
        j == EscAt(lines)[2]
    IN  IF i = 0 \/ ~Deleted(lines[i][j].text) THEN lines
        ELSE IF j > 1
        THEN IF IsSpace(lines[i][j - 1])
             THEN [lines EXCEPT ![i] = RemoveAt(RemoveAt(@, j), j - 1)]
             ELSE lines
        ELSE IF i = 1 THEN lines
        ELSE SubSeq(lines, 1, i - 2)
             \o <<lines[i - 1] \o Tail(lines[i])>>
             \o SubSeq(lines, i + 1, Len(lines))

\* _send_command(command, xml_format) on the output of the device: the top
\* variant filters it, the nested variant returns it as it came.  The prose
\* replies of the model (xml_format FALSE) hold no ESC, and the filter leaves
\* such a text as it is.
SendCommand(v, xml_format, output) ==
    IF v = "top" /\ xml_format THEN FilterReply(output) ELSE output

-----------------------------------------------------------------------------
(* The replies of the device.                                              *)

\* "" : the executor returned nothing.
EmptyReply == <<>>

\* A reply that is no XML at all (an error message of the device).
GarbageReply == <<<<Text("Error")>>>>

Root(lines) ==
    <<<<Open("runtime-data", NoAttr)>>>> \o lines \o <<<<Close("runtime-data")>>>>

Hier(name, lines) ==
    <<<<Open("hierarchy", name)>>>> \o lines \o <<<<Close("hierarchy")>>>>

\* One <instance> block; fields is a sequence of <<name, text>> pairs, each
\* an element on a line of its own.
Instance(fields) ==
    <<<<Open("instance", NoAttr)>>>>
    \o [i \in DOMAIN fields |-> Leaf("info", fields[i][1], fields[i][2])]
    \o <<<<Close("instance")>>>>

\* The blocks of a sequence of records, one after the other.
Instances(recs) == Flatten([i \in DOMAIN recs |-> Instance(recs[i])])

MaxPorts == 2

\* The isam reply with a control sequence in it: after the description
\* element (a blank before it) or at the start of the instance line.
ControlReplies ==
    { Root(Hier("isam",
                <<<<Open("instance", NoAttr)>>,
                  Leaf("info", "description", "R1") \o <<WS, Esc("[K")>>,
                  <<Close("instance")>>>>)),
      Root(Hier("isam",
                <<<<Esc("[1;1H"), Open("instance", NoAttr)>>,
                  Leaf("info", "description", "R1"),
                  <<Close("instance")>>>>)) }

HostnameReplies ==
    { EmptyReply, GarbageReply, Root(<<>>),
      Root(Hier("isam", Instance(<<<<"description", "R1">>>>))),
      Root(Hier("isam", Instance(<<<<"other", "x">>>>))) }
    \cup ControlReplies

OsReplies ==
    { EmptyReply, Root(<<>>),
      Root(Hier("ansi", Instance(<<<<"isam-feature-group", "L6GPAA61">>>>))) }

UptimeReplies ==
    { <<>>,
      <<<<"System", "Up", "Time", ":", "3", "days">>>>,
      <<<<"System", "Uptime", ":">>>> }

SnReplies ==
    { Root(<<>>),
      Root(Hier("shelf", Instance(<<<<"serial-no", "SN1">>, <<"variant", "V1">>>>))),
      Root(Hier("shelf", Instance(<<<<"serial-no", "SN1">>>>))),
      Root(Hier("shelf", Instance(<<<<"variant", "V1">>>>))),
      Root(Hier("shelf", <<<<Open("info", NoAttr), Close("info")>>>>)) }

\* The instances of the interface reply: an index, an index that sorts
\* differently as text and as numbers, a vlan port, an empty element, an
\* instance without the field.
PortEntries(field) ==
    { <<<<field, "1/1/1/2">>>>, <<<<field, "1/1/1/10">>>>, <<<<field, "vlan:1">>>>,
      <<<<field, None>>>>, <<<<"other", "x">>>> }

PortReplies(field) ==
    { Root(Hier("interface", Instances(recs))) :
        recs \in SeqsUpTo(PortEntries(field), MaxPorts) }

ModelReplies ==
    { <<>>, <<<<"#", "Copyright", "(c)", "NOKIA", "7360", "ISAM">>>> }

-----------------------------------------------------------------------------
(* get_facts, in both variants.                                            *)

\* The command text _send_command puts on the wire.
CommandText(command, xml_format) ==
    IF xml_format THEN command \o " xml" ELSE command

\* The commands of get_facts with the second and the fourth in each other's
\* place.
FactsCommandsCrossed(v) ==
    <<CommandText("show equipment isam detail", TRUE),
      CommandText("show equipment shelf 1/1 detail", TRUE),
      CommandText("show core1-uptime", FALSE),
      CommandText("show software-mngt version ansi", TRUE)>>
    \o (IF v = "nested"
        THEN <<CommandText("show equipment ont interface", TRUE),
               CommandText("admin display-config", FALSE)>>
        ELSE <<CommandText("show interface port", TRUE)>>)

\* The commands of get_facts in the order it sends them; the nested variant
\* asks for the ONT interfaces and, last, for the configuration banner.
FactsCommands(v) ==
    <<CommandText("show equipment isam detail", TRUE),
      CommandText("show software-mngt version ansi", TRUE),
      CommandText("show core1-uptime", FALSE),
      CommandText("show equipment shelf 1/1 detail", TRUE)>>
    \o (IF v = "nested"
        THEN <<CommandText("show equipment ont interface", TRUE),
               CommandText("admin display-config", FALSE)>>
        ELSE <<CommandText("show interface port", TRUE)>>)

\* The xml_format of the k-th command of get_facts.
FactsXml(k) == k \notin {3, 6}

\* What the device may answer to the k-th command of get_facts.
FactsReplies(v, k) ==
    CASE k = 1 -> HostnameReplies
      [] k = 2 -> OsReplies
      [] k = 3 -> UptimeReplies
      [] k = 4 -> SnReplies
      [] k = 5 -> PortReplies(IF v = "nested" THEN "ont-idx" ELSE "port")
      [] OTHER -> ModelReplies

Raise(st, e) == [st EXCEPT !.ok = FALSE, !.err = e]

\* The facts the hostname loop writes once it has found a description.
HostnameFacts(v, hostname) ==
    IF v = "nested"
    THEN [hostname |-> hostname, vendor |-> "Nokia", uptime |-> "",
          os_version |-> "", serial_number |-> "", fqdn |-> "Unknown",
          interface_list |-> <<>>]
    ELSE [hostname |-> hostname, vendor |-> "Nokia", uptime |-> "",
          os_version |-> "", serial_number |-> "", model |-> "",
          fqdn |-> "Unknown", interface_list |-> <<>>]

RECURSIVE HostnameLoop(_, _, _, _, _)
\* for elem in hostname_xml_tree.findall('.//hierarchy[@name="isam"]')
HostnameLoop(v, nodes, js, k, st) ==
    IF ~st.ok \/ k > Len(js) THEN st
    ELSE LET d == ConvertXmlElemToDict(nodes, js[k])
         IN  IF ~d.ok THEN Raise(st, "KeyError")
             ELSE HostnameLoop(v, nodes, js, k + 1,
                    IF "description" \in DOMAIN d.data
                    THEN [st EXCEPT !.facts =
                             HostnameFacts(v, d.data["description"]) @@ @]
                    ELSE st)

RECURSIVE OsLoop(_, _, _, _)
\* for elem in os_xml_tree.findall('.//hierarchy[@name="ansi"]')
OsLoop(nodes, js, k, st) ==
    IF ~st.ok \/ k > Len(js) THEN st
    ELSE LET d == ConvertXmlElemToDict(nodes, js[k])
         IN  IF ~d.ok THEN Raise(st, "KeyError")
             ELSE OsLoop(nodes, js, k + 1,
                    IF "isam-feature-group" \in DOMAIN d.data
                    THEN [st EXCEPT !.facts =
                             Put(@, "os_version", d.data["isam-feature-group"])]
                    ELSE st)

\* The model step of the shelf loop.  nested: facts["model"] += f" ({variant})",
\* a TypeError when make_device_model returned None.  top: facts['model'] = variant.
SetModel(v, st, variantText) ==
    IF v = "nested"
    THEN IF st.facts["model"] = None THEN Raise(st, "TypeError")
         ELSE [st EXCEPT !.facts =
                  Put(@, "model", @["model"] \o " (" \o variantText \o ")")]
    ELSE [st EXCEPT !.facts = Put(@, "model", variantText)]

RECURSIVE SnLoop(_, _, _, _, _)
\* for elem in sn_xml_tree.findall('.//hierarchy[@name="shelf"]')
SnLoop(v, nodes, js, k, st) ==
    IF ~st.ok \/ k > Len(js) THEN st
    ELSE LET d == ConvertXmlElemToDict(nodes, js[k])
             st1 == IF "serial-no" \in DOMAIN d.data
                    THEN [st EXCEPT !.facts =
                             Put(@, "serial_number", d.data["serial-no"])]
                    ELSE st
         IN  IF ~d.ok THEN Raise(st, "KeyError")
             ELSE SnLoop(v, nodes, js, k + 1,
                    IF "variant" \in DOMAIN d.data
                    THEN SetModel(v, st1, d.data["variant"])
                    ELSE st1)

RECURSIVE UptimeLoop(_, _, _)
\* for line in uptime_output.splitlines(): split_line[1] and the four pops
\* raise IndexError on a line that is too short.
UptimeLoop(lines, k, st) ==
    IF ~st.ok \/ k > Len(lines) THEN st
    ELSE LET split_line == lines[k]
         IN  IF split_line = <<>> THEN UptimeLoop(lines, k + 1, st)
             ELSE IF ~WordContains(split_line[1], "System")
             THEN UptimeLoop(lines, k + 1, st)
             ELSE IF Len(split_line) < 2 THEN Raise(st, "IndexError")
             ELSE IF ~WordContains(split_line[2], "Up")
             THEN UptimeLoop(lines, k + 1, st)
             ELSE IF Len(split_line) < 4 THEN Raise(st, "IndexError")
             ELSE UptimeLoop(lines, k + 1,
                    [st EXCEPT !.facts =
                        Put(@, "uptime",
                            JoinWords(SubSeq(split_line, 5, Len(split_line))))])

\* The unbound local port_raw of the top variant.
Unbound == "<unbound>"

RECURSIVE PortLoop(_, _, _, _, _)
\* for elem in port_xml_tree.findall('.//instance').  pl is the loop's state:
\* the list so far and, in the top variant, the local port_raw, which keeps
\* its value from one iteration to the next.
PortLoop(v, nodes, js, k, pl) ==
    IF ~pl.ok \/ k > Len(js) THEN pl
    ELSE LET d == ConvertXmlElemToDict(nodes, js[k])
         IN  IF ~d.ok THEN Raise(pl, "KeyError")
             ELSE IF v = "nested"
             THEN PortLoop(v, nodes, js, k + 1,
                    IF "ont-idx" \in DOMAIN d.data
                    THEN [pl EXCEPT !.list = Append(@, d.data["ont-idx"])]
                    ELSE pl)
             ELSE IF "port" \in DOMAIN d.data
             THEN IF d.data["port"] = None THEN Raise(pl, "TypeError")
                  ELSE IF Contains(Chars(d.data["port"]), Chars("vlan"))
                  THEN PortLoop(v, nodes, js, k + 1,
                                [pl EXCEPT !.raw = d.data["port"]])
                  ELSE PortLoop(v, nodes, js, k + 1,
                                [pl EXCEPT !.raw = d.data["port"],
                                           !.list = Append(@, d.data["port"])])
             ELSE IF pl.raw = Unbound THEN Raise(pl, "UnboundLocalError")
             ELSE PortLoop(v, nodes, js, k + 1,
                           [pl EXCEPT !.list = Append(@, pl.raw)])

\* port_list.sort(...): the nested variant computes the key of every entry
\* first, in list order (None.split is an AttributeError, int() of a
\* non-number a ValueError).
SortPorts(v, pl) ==
    IF ~pl.ok THEN pl
    ELSE IF v = "top" THEN [pl EXCEPT !.list = SortStr(@)]
    ELSE LET bad == {i \in DOMAIN pl.list :
                        pl.list[i] = None \/ ~HasIndexKey(pl.list[i])}
             first == CHOOSE i \in bad : \A j \in bad : i <= j
         IN  IF bad = {} THEN [pl EXCEPT !.list = SortByIndexKey(@)]
             ELSE IF pl.list[first] = None THEN Raise(pl, "AttributeError")
             ELSE Raise(pl, "ValueError")

\* get_facts once its replies rs (in sending order) are in: ok, the error
\* raised, the facts returned.
GetFacts(v, rs) ==
    LET model == IF v = "nested" THEN MakeDeviceModel(rs[6])
                 ELSE [ok |-> TRUE, err |-> "", val |-> None]
        hostname_xml_tree == FromString(rs[1])
        os_xml_tree == FromString(rs[2])
        sn_xml_tree == FromString(rs[4])
        port_xml_tree == FromString(rs[5])
        st0 == [ok |-> TRUE, err |-> "",
                facts |-> IF v = "nested" THEN [model |-> model.val] ELSE EmptyDict]
        st1 == HostnameLoop(v, hostname_xml_tree.nodes,
                            FindHierarchy(hostname_xml_tree.nodes, "isam"), 1, st0)
        st2 == OsLoop(os_xml_tree.nodes, FindHierarchy(os_xml_tree.nodes, "ansi"), 1, st1)
        st3 == SnLoop(v, sn_xml_tree.nodes,
                      FindHierarchy(sn_xml_tree.nodes, "shelf"), 1, st2)
        st4 == UptimeLoop(rs[3], 1, st3)
        pl == SortPorts(v, PortLoop(v, port_xml_tree.nodes,
                                    FindAllDeep(port_xml_tree.nodes, "instance"), 1,
                                    [ok |-> TRUE, err |-> "", list |-> <<>>,
                                     raw |-> Unbound]))
    IN  IF ~model.ok THEN [ok |-> FALSE, err |-> model.err, facts |-> EmptyDict]
        ELSE IF ~(hostname_xml_tree.ok /\ os_xml_tree.ok /\ sn_xml_tree.ok
                  /\ port_xml_tree.ok)
        THEN [ok |-> FALSE, err |-> "ParseError", facts |-> EmptyDict]
        ELSE IF ~st4.ok THEN [ok |-> FALSE, err |-> st4.err, facts |-> EmptyDict]
        ELSE IF ~pl.ok THEN [ok |-> FALSE, err |-> pl.err, facts |-> EmptyDict]
        ELSE [ok |-> TRUE, err |-> "",
              facts |-> Put(st4.facts, "interface_list", pl.list)]

Variants == {"nested", "top"}

\* No call in progress, nothing filtered.
IdleCall ==
    /\ variant = "nested"
    /\ op = "idle"
    /\ pc = 0
    /\ sent = <<>>
    /\ replies = <<>>
    /\ outcome = "none"
    /\ result = None
    /\ error = ""
    /\ ports = <<>>
    /\ raw = <<>>
    /\ commands = <<>>

IdleFilter ==
    /\ buf = <<>>
    /\ filtered = <<>>
    /\ refiltered = <<>>
    /\ sanitized = <<>>

\* The plugin calls get_facts on a driver of either variant.
FactsCall(v) ==
    /\ op = "idle"
    /\ variant' = v
    /\ op' = "get_facts"
    /\ pc' = 1
    /\ UNCHANGED <<sent, replies, outcome, result, error, ports, filterVars, restVars>>

\* _send_command: the next command goes out and its reply comes back.
FactsSend ==
    /\ op = "get_facts"
    /\ outcome = "none"
    /\ pc <= Len(FactsCommands(variant))
    /\ sent' = Append(sent, FactsCommands(variant)[pc])
    /\ \E r \in FactsReplies(variant, pc) :
          /\ raw' = Append(raw, r)
          /\ replies' = Append(replies, SendCommand(variant, FactsXml(pc), r))
    /\ pc' = pc + 1
    /\ UNCHANGED <<variant, op, outcome, result, error, ports, filterVars, sanitized, self, commands>>

\* The rest of get_facts: parse, merge, sort, return or raise.
FactsAggregate ==
    /\ op = "get_facts"
    /\ outcome = "none"
    /\ pc > Len(FactsCommands(variant))
    /\ LET r == GetFacts(variant, replies)
       IN  /\ outcome' = IF r.ok THEN "returned" ELSE "raised"
           /\ result' = r.facts
           /\ error' = r.err
    /\ UNCHANGED <<variant, op, pc, sent, replies, ports, filterVars, restVars>>

InitFacts == IdleCall /\ IdleFilter /\ SessionOpen

NextFacts ==
    \/ \E v \in Variants : FactsCall(v)
    \/ FactsSend
    \/ FactsAggregate

SpecFacts == InitFacts /\ [][NextFacts]_vars

-----------------------------------------------------------------------------
(* Claims about get_facts.                                                 *)

FactNames ==
    {"hostname", "vendor", "uptime", "os_version", "serial_number", "model",
     "fqdn", "interface_list"}

\* The documented default of a fact.
FactDefault(name) ==
    CASE name = "interface_list" -> <<>>
      [] name = "fqdn" -> "Unknown"
      [] name = "vendor" -> "Nokia"
      [] OTHER -> ""

\* The XML replies of get_facts by their place in the sending order, and the
\* facts each one is the source of.
XmlSources == {1, 2, 4, 5}

SourceFacts(k) ==
    CASE k = 1 -> {"hostname"}
      [] k = 2 -> {"os_version"}
      [] k = 4 -> {"serial_number", "model"}
      [] k = 5 -> {"interface_list"}
      [] OTHER -> {}

\* Empty text, or text that does not parse as XML.
Unusable(r) == ~FromString(r).ok

\* Reply r holds, under a hierarchy named hier, an element named field.
Supplies(r, hier, field) ==
    LET t == FromString(r)
    IN  /\ t.ok
        /\ \E i \in DOMAIN FindHierarchy(t.nodes, hier) :
              LET d == ConvertXmlElemToDict(t.nodes, FindHierarchy(t.nodes, hier)[i])
              IN  d.ok /\ field \in DOMAIN d.data

FactsDone == op = "get_facts" /\ outcome # "none"

FactsReturned == op = "get_facts" /\ outcome = "returned"

\* C1: whenever a required source of get_facts returns no usable output
\* (empty text, or text that is no XML), get_facts does not raise: it returns
\* a FactSet in which the facts of that source hold their documented defaults.
C1_UnusableSourceKeepsDefaults ==
    (FactsDone /\ \E k \in XmlSources : Unusable(replies[k]))
    => /\ outcome = "returned"
       /\ \A k \in XmlSources : Unusable(replies[k]) =>
             \A f \in SourceFacts(k) :
                f \in DOMAIN result /\ result[f] = FactDefault(f)

\* C2: the FactSet get_facts returns holds every documented fact, and a fact
\* that no source supplied holds its documented default, also when the
\* isam-detail reply supplies no description.
C2_EveryFactPresentWithDefault ==
    FactsReturned
    => /\ FactNames \subseteq DOMAIN result
       /\ result["fqdn"] = "Unknown"
       /\ ~Supplies(replies[1], "isam", "description") => result["hostname"] = ""
       /\ ~Supplies(replies[2], "ansi", "isam-feature-group")
             => result["os_version"] = ""
       /\ ~Supplies(replies[4], "shelf", "serial-no") => result["serial_number"] = ""

\* The replies of the scenario of C3: a description from isam-detail, serial-no
\* and variant from shelf-detail, and no data from any other source.
C3_Scenario ==
    /\ FactsDone
    /\ replies[1] = Root(Hier("isam", Instance(<<<<"description", "R1">>>>)))
    /\ replies[2] = Root(<<>>)
    /\ replies[3] = <<>>
    /\ replies[4] = Root(Hier("shelf",
                          Instance(<<<<"serial-no", "SN1">>, <<"variant", "V1">>>>)))
    /\ replies[5] = Root(Hier("interface", <<>>))
    /\ variant = "nested" => replies[6] = <<>>

\* C3: with a description from isam-detail, serial-no and variant from
\* shelf-detail and nothing from any other source, get_facts completes without
\* error; hostname, serial_number and model are set from those values and
\* uptime and os_version hold their default, the empty string.
C3_ThreeSourcesMerged ==
    C3_Scenario
    => /\ outcome = "returned"
       /\ result["hostname"] = "R1"
       /\ result["serial_number"] = "SN1"
       /\ result["model"] \notin {"", None}
       /\ result["uptime"] = ""
       /\ result["os_version"] = ""

\* C6: in every variant, the interface_list get_facts returns is ordered by
\* the slash-delimited indexes compared component-wise as integers: no entry
\* comes before one that is smaller component-wise.
C6_InterfaceListNumericOrder ==
    FactsReturned
    => \A i, j \in DOMAIN result["interface_list"] :
          i < j => ~IntListLess(IndexKey(result["interface_list"][j]),
                                IndexKey(result["interface_list"][i]))

-----------------------------------------------------------------------------
(* get_lldp_neighbors and get_lldp_neighbors_detail (nested variant).      *)

\* A line of the "show port" text: whether it starts with white space, and
\* its words.  A blank line has neither.
PortLine(indent, words) == [indent |-> indent, words |-> words]

\* word.startswith(prefix) for the words of the model.
StartsWith(w, prefix) ==
    \/ w = prefix
    \/ <<w, prefix>> \in {<<"=====", "=">>, <<"-----", "-">>, <<"Ports", "Port">>}

\* re.findall(PORT_REGEX, port_data, re.MULTILINE) keeps the line: it is not
\* empty and does not start with "=", "-", white space, "Port", or "Id"
\* followed by one more character.
PortRegexMatches(line) ==
    /\ ~line.indent
    /\ line.words # <<>>
    /\ ~StartsWith(line.words[1], "=")
    /\ ~StartsWith(line.words[1], "-")
    /\ ~StartsWith(line.words[1], "Port")
    /\ ~(line.words[1] = "Id" /\ Len(line.words) > 1)

RECURSIVE PortsFrom(_, _)
\* The loop over all_ports: the first word of every matched line whose last
\* word is not "vport".
PortsFrom(lines, k) ==
    IF k > Len(lines) THEN <<>>
    ELSE LET line == lines[k].words
         IN  IF PortRegexMatches(lines[k]) /\ line[Len(line)] # "vport"
             THEN <<line[1]>> \o PortsFrom(lines, k + 1)
             ELSE PortsFrom(lines, k + 1)

PortList(port_data) == PortsFrom(port_data, 1)

\* The lines of a remote-info block that the regular expressions look for.
\* A block is a function from the labels of the lines it holds to what the
\* expression's group captures on that line.
Labels ==
    {"System Name", "Chassis Id", "Port Id", "Port Description",
     "System Description", "Supported Caps", "Enabled Caps"}

\* remote_port.replace('"', "")
StripQuotes(w) == IF w = "\"5/1/2\"" THEN "5/1/2" ELSE w

\* The port step shared by both operations (lines 733-740 and 801-808):
\* group(1) of a failed search is an AttributeError, which the except
\* IndexError clause does not catch; a capture of one word is the IndexError
\* that leaves the port empty.
RemotePort(block) ==
    IF "Port Id" \notin DOMAIN block
    THEN [ok |-> FALSE, err |-> "AttributeError", set |-> FALSE, val |-> ""]
    ELSE IF Len(block["Port Id"]) < 2
    THEN [ok |-> TRUE, err |-> "", set |-> FALSE, val |-> ""]
    ELSE [ok |-> TRUE, err |-> "", set |-> TRUE,
          val |-> StripQuotes(block["Port Id"][2])]

\* One iteration of the loop over ports in get_lldp_neighbors.
NeighborStep(lldp, port, block) ==
    LET rp == RemotePort(block)
        entry == [hostname |-> block["System Name"], port |-> ""]
    IN  IF "System Name" \notin DOMAIN block
        THEN [ok |-> TRUE, err |-> "", lldp |-> lldp]
        ELSE IF ~rp.ok THEN [ok |-> FALSE, err |-> rp.err, lldp |-> lldp]
        ELSE [ok |-> TRUE, err |-> "",
              lldp |-> Put(lldp, port,
                           <<IF rp.set THEN [entry EXCEPT !.port = rp.val] ELSE entry>>)]

\* One iteration of the loop over ports in get_lldp_neighbors_detail: the
\* five group(1) calls of lines 787-800 need their searches to have matched.
NeighborDetailStep(lldp, port, block) ==
    LET rp == RemotePort(block)
        needed == {"Chassis Id", "Port Description", "System Description",
                   "Supported Caps", "Enabled Caps"}
        entry == [parent_interface |-> port,
                  remote_chassis_id |-> block["Chassis Id"],
                  remote_system_name |-> block["System Name"],
                  remote_port |-> "",
                  remote_port_description |-> block["Port Description"],
                  remote_system_description |-> JoinWords(block["System Description"]),
                  remote_system_capab |-> block["Supported Caps"],
                  remote_system_enable_capab |-> block["Enabled Caps"]]
    IN  IF "System Name" \notin DOMAIN block
        THEN [ok |-> TRUE, err |-> "", lldp |-> lldp]
        ELSE IF ~(needed \subseteq DOMAIN block)
        THEN [ok |-> FALSE, err |-> "AttributeError", lldp |-> lldp]
        ELSE IF ~rp.ok THEN [ok |-> FALSE, err |-> rp.err, lldp |-> lldp]
        ELSE [ok |-> TRUE, err |-> "",
              lldp |-> Put(lldp, port,
                           <<IF rp.set THEN [entry EXCEPT !.remote_port = rp.val]
                             ELSE entry>>)]

MaxPortLines == 2

\* The lines "show port" may hold: separators, headers, a lone "Id", an
\* indented line, a blank line, two ports and a virtual port.
ShowPortLines ==
    { PortLine(FALSE, <<"=====">>), PortLine(FALSE, <<"-----">>),
      PortLine(FALSE, <<"Port", "Admin">>), PortLine(FALSE, <<"Id", "State">>),
      PortLine(FALSE, <<"Id">>), PortLine(TRUE, <<"esat">>), PortLine(FALSE, <<>>),
      PortLine(FALSE, <<"1/1/1", "Up">>), PortLine(FALSE, <<"1/1/2", "Up">>),
      PortLine(FALSE, <<"lag-1", "Up", "vport">>) }

ShowPortReplies == SeqsUpTo(ShowPortLines, MaxPortLines)

\* A block with every line; the Port Id capture is one word ("1/1/2") or,
\* as the device prints it, the encoded id and the quoted port below it.
FullBlock(portId) ==
    [l \in Labels |->
        CASE l = "System Name" -> "R1"
          [] l = "Chassis Id" -> "00:11"
          [] l = "Port Id" -> portId
          [] l = "Port Description" -> "pd"
          [] l = "System Description" -> <<"Nokia", "7750">>
          [] l = "Supported Caps" -> "bridge"
          [] OTHER -> "router"]

PortIdCaptures == {<<"1/1/2">>, <<"35:2F", "\"5/1/2\"">>}

\* The sets of lines a block of the model holds.
BlockShapes ==
    { Labels, Labels \ {"Chassis Id"}, Labels \ {"Port Id"},
      Labels \ {"System Name"}, Labels \ {"Enabled Caps"},
      {"System Name", "Port Id"}, {"System Name"}, {} }

LldpBlocks ==
    { [l \in S |-> FullBlock(c)[l]] : S \in BlockShapes, c \in PortIdCaptures }

LldpOps == {"get_lldp_neighbors", "get_lldp_neighbors_detail"}

LldpCall(fn) ==
    /\ op = "idle"
    /\ op' = fn
    /\ pc' = 0
    /\ UNCHANGED <<variant, sent, replies, outcome, result, error, ports, filterVars, restVars>>

\* port_data = self._send_command("show port"), and the port list from it.
LldpShowPort ==
    /\ op \in LldpOps
    /\ outcome = "none"
    /\ pc = 0
    /\ sent' = Append(sent, CommandText("show port", FALSE))
    /\ \E r \in ShowPortReplies :
          /\ raw' = Append(raw, r)
          /\ replies' = Append(replies, r)
          /\ ports' = PortList(r)
    /\ result' = EmptyDict
    /\ pc' = 1
    /\ UNCHANGED <<variant, op, outcome, error, filterVars, sanitized, self, commands>>

\* One iteration of "for port in ports": the remote-info command of the port
\* and the extraction from its reply.
LldpNeighbor(block) ==
    /\ op \in LldpOps
    /\ outcome = "none"
    /\ pc \in 1..Len(ports)
    /\ block \in LldpBlocks
    /\ sent' = Append(sent, CommandText("show port " \o ports[pc]
                                         \o " ethernet lldp remote-info", FALSE))
    /\ raw' = Append(raw, block)
    /\ replies' = Append(replies, block)
    /\ LET r == IF op = "get_lldp_neighbors"
                THEN NeighborStep(result, ports[pc], block)
                ELSE NeighborDetailStep(result, ports[pc], block)
       IN  /\ result' = r.lldp
           /\ outcome' = IF r.ok THEN "none" ELSE "raised"
           /\ error' = r.err
    /\ pc' = pc + 1
    /\ UNCHANGED <<variant, op, ports, filterVars, sanitized, self, commands>>

\* return lldp
LldpReturn ==
    /\ op \in LldpOps
    /\ outcome = "none"
    /\ pc > Len(ports)
    /\ outcome' = "returned"
    /\ UNCHANGED <<variant, op, pc, sent, replies, result, error, ports, filterVars, restVars>>

InitLldp == IdleCall /\ IdleFilter /\ SessionOpen

NextLldp ==
    \/ \E fn \in LldpOps : LldpCall(fn)
    \/ LldpShowPort
    \/ \E b \in LldpBlocks : LldpNeighbor(b)
    \/ LldpReturn

SpecLldp == InitLldp /\ [][NextLldp]_vars

-----------------------------------------------------------------------------
(* Claims about the LLDP extraction.                                       *)

\* The field of the NeighborRecord that a line of the block fills.
LldpField(fn, label) ==
    IF fn = "get_lldp_neighbors"
    THEN CASE label = "System Name" -> "hostname"
           [] label = "Port Id" -> "port"
           [] OTHER -> None
    ELSE CASE label = "System Name" -> "remote_system_name"
           [] label = "Chassis Id" -> "remote_chassis_id"
           [] label = "Port Id" -> "remote_port"
           [] label = "Port Description" -> "remote_port_description"
           [] label = "System Description" -> "remote_system_description"
           [] label = "Supported Caps" -> "remote_system_capab"
           [] OTHER -> "remote_system_enable_capab"

\* The loop has just handled the block of a port: the block is the last
\* reply, the port the one before pc.
LldpHandled == op \in LldpOps /\ pc >= 2

LastBlock == replies[Len(replies)]

LastPort == ports[pc - 1]

\* C4: for a remote-info block that holds a System Name line, the extraction
\* completes without error, the NeighborRecord holds a value for every field
\* whose line is in the block, and a field whose line is missing is absent
\* from the record (not an empty string).
C4_MissingLinesLeaveFieldsAbsent ==
    (LldpHandled /\ "System Name" \in DOMAIN LastBlock)
    => /\ outcome # "raised"
       /\ LastPort \in DOMAIN result
       /\ \A l \in Labels :
             LET f == LldpField(op, l)
                 e == result[LastPort][1]
             IN  f # None =>
                    IF l \in DOMAIN LastBlock
                    THEN f \in DOMAIN e /\ e[f] # ""
                    ELSE f \notin DOMAIN e

-----------------------------------------------------------------------------
(* convert_xml_to_list, _convert_list_to_dict and the table operations     *)
(* built on them (nested variant).                                         *)

\* "hierarchy" in s, for the names and texts of the model.
HoldsMarker(s) == s \in {"hierarchy", "hierarchy-port"}

\* "hierarchy" in line: in a tag, an attribute or the character data.
LineHasMarker(line) ==
    \E i \in DOMAIN line :
        HoldsMarker(line[i].tag) \/ HoldsMarker(line[i].name) \/ HoldsMarker(line[i].text)

RECURSIVE LStrip(_)
LStrip(toks) ==
    IF toks # <<>> /\ IsSpace(Head(toks)) THEN LStrip(Tail(toks)) ELSE toks

RECURSIVE RStrip(_)
RStrip(toks) ==
    IF toks # <<>> /\ IsSpace(toks[Len(toks)])
    THEN RStrip(SubSeq(toks, 1, Len(toks) - 1))
    ELSE toks

\* str.strip()
StrStrip(toks) == RStrip(LStrip(toks))

RECURSIVE JoinLines(_, _)
\* sep.join(lines)
JoinLines(lines, sep) ==
    IF lines = <<>> THEN <<>>
    ELSE IF Len(lines) = 1 THEN lines[1]
    ELSE lines[1] \o sep \o JoinLines(Tail(lines), sep)

\* The kept lines joined with a blank between them and not stripped.
SanitizeJoined(xml_data) ==
    JoinLines(SelectSeq(xml_data, LAMBDA line : ~LineHasMarker(line)), <<WS>>)

\* The lines convert_xml_to_list keeps, concatenated without separator, and
\* root.strip().
Sanitize(xml_data) ==
    StrStrip(Flatten(SelectSeq(xml_data, LAMBDA line : ~LineHasMarker(line))))

RECURSIVE InstanceDictSkipEmpty(_, _, _, _)
\* The loop over the children with an empty element left out of the record.
InstanceDictSkipEmpty(nodes, js, k, data) ==
    IF k > Len(js) THEN [ok |-> TRUE, data |-> data]
    ELSE LET element == nodes[js[k]]
         IN  IF element.name = NoAttr THEN [ok |-> FALSE, data |-> data]
             ELSE InstanceDictSkipEmpty(nodes, js, k + 1,
                                        IF element.text = None THEN data
                                        ELSE Put(data, element.name, element.text))

RECURSIVE InstanceDictFrom(_, _, _, _)
\* for element in instance_elem: data[name] = value
InstanceDictFrom(nodes, js, k, data) ==
    IF k > Len(js) THEN [ok |-> TRUE, data |-> data]
    ELSE LET element == nodes[js[k]]
         IN  IF element.name = NoAttr THEN [ok |-> FALSE, data |-> data]
             ELSE InstanceDictFrom(nodes, js, k + 1,
                                   Put(data, element.name, element.text))

RECURSIVE InstancesFrom(_, _, _, _)
\* for instance_elem in root.findall("instance")
InstancesFrom(nodes, js, k, instances) ==
    IF k > Len(js) THEN [ok |-> TRUE, list |-> instances]
    ELSE LET d == InstanceDictFrom(nodes, Children(nodes, js[k]), 1, EmptyDict)
         IN  IF ~d.ok THEN [ok |-> FALSE, list |-> <<>>]
             ELSE InstancesFrom(nodes, js, k + 1, Append(instances, d.data))

\* convert_xml_to_list with a parse that gives up silently: an empty list
\* where the text is no document.
ConvertXmlToListLenient(xml_data) ==
    LET root == ParseFrom(Sanitize(xml_data), 1, <<>>, <<>>)
        r == InstancesFrom(root.nodes, FindAllChildren(root.nodes, "instance"), 1, <<>>)
    IN  IF xml_data = EmptyReply
        THEN [ok |-> TRUE, err |-> "", none |-> TRUE, list |-> <<>>]
        ELSE IF ~r.ok
        THEN [ok |-> FALSE, err |-> "KeyError", none |-> FALSE, list |-> <<>>]
        ELSE [ok |-> TRUE, err |-> "", none |-> FALSE, list |-> r.list]

\* convert_xml_to_list(xml_data): none is TRUE for the bare "return" on empty
\* text; ok is FALSE for an exception (ParseError, or the KeyError of an
\* element without a name attribute).
ConvertXmlToList(xml_data) ==
    LET root == ParseFrom(Sanitize(xml_data), 1, <<>>, <<>>)
        r == InstancesFrom(root.nodes, FindAllChildren(root.nodes, "instance"), 1, <<>>)
    IN  IF xml_data = EmptyReply
        THEN [ok |-> TRUE, err |-> "", none |-> TRUE, list |-> <<>>]
        ELSE IF ~root.ok
        THEN [ok |-> FALSE, err |-> "ParseError", none |-> FALSE, list |-> <<>>]
        ELSE IF ~r.ok
        THEN [ok |-> FALSE, err |-> "KeyError", none |-> FALSE, list |-> <<>>]
        ELSE [ok |-> TRUE, err |-> "", none |-> FALSE, list |-> r.list]

\* The loop body with the first record of a key kept instead of the last.
ListToDictStepFirstWins(data_dict, record, key) ==
    IF key \in DOMAIN record /\ record[key] \notin DOMAIN data_dict
    THEN Put(data_dict, record[key], record)
    ELSE data_dict

\* The loop body of _convert_list_to_dict: the KeyError of a record without
\* the key is swallowed.
ListToDictStep(data_dict, record, key) ==
    IF key \in DOMAIN record THEN Put(data_dict, record[key], record) ELSE data_dict

RECURSIVE ListToDictFrom(_, _, _, _)
ListToDictFrom(data, key, k, data_dict) ==
    IF k > Len(data) THEN data_dict
    ELSE ListToDictFrom(data, key, k + 1, ListToDictStep(data_dict, data[k], key))

\* _convert_list_to_dict(data, key)
ConvertListToDict(data, key) == ListToDictFrom(data, key, 1, EmptyDict)

\* The operations of the shape "if data: convert, re-key; else: message".
KeyedOps == {"get_equipment_slot", "get_equipment_ont_status_xpon", "get_vlan_name"}

OpCommand(name) ==
    CASE name = "get_equipment_slot" -> "show equipment slot"
      [] name = "get_equipment_ont_status_xpon" -> "show equipment ont status x-pon"
      [] name = "get_vlan_name" -> "show vlan name"
      [] name = "get_vlan_bridge_port_fdb" -> "show vlan bridge-port-fdb"
      [] OTHER -> "show sntp server-tablev6 "

OpKey(name) ==
    CASE name = "get_equipment_slot" -> "slot"
      [] name = "get_equipment_ont_status_xpon" -> "ont"
      [] OTHER -> "id"

\* The message returned in place of data.
NoDataMessage(name) ==
    IF name = "get_equipment_ont_status_xpon"
    THEN "No available data from the " \o Hostname
    ELSE "No available ** " \o OpCommand(name) \o " ** data from the " \o Hostname

\* What an operation returns, by kind: a message (str), a dict, None.
Returned(kind, val) == [ok |-> TRUE, err |-> "", kind |-> kind, val |-> val]

Raised(e) == [ok |-> FALSE, err |-> e, kind |-> "none", val |-> None]

\* get_equipment_slot and its like, on the reply data.
KeyedOp(name, data) ==
    LET data_list == ConvertXmlToList(data)
    IN  IF data = EmptyReply THEN Returned("str", NoDataMessage(name))
        ELSE IF ~data_list.ok THEN Raised(data_list.err)
        ELSE Returned("dict", ConvertListToDict(data_list.list, OpKey(name)))

RECURSIVE NtpFrom(_, _, _)
NtpFrom(data, k, ntp_servers) ==
    IF k > Len(data) THEN ntp_servers
    ELSE NtpFrom(data, k + 1,
           IF "server-ip-addrv6" \in DOMAIN data[k]
           THEN Put(ntp_servers, "server-ip-addrv6",
                    Append(Get(ntp_servers, "server-ip-addrv6", <<>>),
                           data[k]["server-ip-addrv6"]))
           ELSE ntp_servers)

\* get_ntp_servers: no "if data" guards the loop, and iterating the None of
\* an empty reply is a TypeError.
GetNtpServers(reply) ==
    LET data == ConvertXmlToList(reply)
    IN  IF ~data.ok THEN Raised(data.err)
        ELSE IF data.none THEN Raised("TypeError")
        ELSE Returned("dict", NtpFrom(data.list, 1, EmptyDict))

\* The body of the loop of get_vlan_bridge_port_fdb on an entry with its
\* three fields: for a known port the pair is appended at the first stored
\* pair whose mac differs (then break); for a new port the list is started.
FdbStep(new_dict, entry) ==
    LET port_ == entry["port"]
        pair == <<entry["vlan-id"], entry["mac"]>>
    IN  IF port_ \in DOMAIN new_dict
        THEN IF \E i \in DOMAIN new_dict[port_] : new_dict[port_][i][2] # entry["mac"]
             THEN Put(new_dict, port_, Append(new_dict[port_], pair))
             ELSE new_dict
        ELSE Put(new_dict, port_, <<pair>>)

RECURSIVE FdbFrom(_, _, _)
\* for entry in loaded_data; entry["port"], entry["vlan-id"], entry["mac"]
\* raise KeyError on a record without the field.
FdbFrom(loaded_data, k, new_dict) ==
    IF k > Len(loaded_data) THEN Returned("dict", new_dict)
    ELSE IF ~({"port", "vlan-id", "mac"} \subseteq DOMAIN loaded_data[k])
    THEN Raised("KeyError")
    ELSE FdbFrom(loaded_data, k + 1, FdbStep(new_dict, loaded_data[k]))

\* get_vlan_bridge_port_fdb on the reply data.
GetVlanBridgePortFdb(data) ==
    LET tmp_data == ConvertXmlToList(data)
    IN  IF data = EmptyReply
        THEN Returned("str", NoDataMessage("get_vlan_bridge_port_fdb"))
        ELSE IF ~tmp_data.ok THEN Raised(tmp_data.err)
        ELSE FdbFrom(tmp_data.list, 1, EmptyDict)

MaxRecords == 3

\* The instances of a keyed table: two records with the same key, one with
\* another key, one without the key field, one whose key element is empty.
KeyedRecords(key) ==
    { <<<<key, "a">>, <<"info", "1">>>>, <<<<key, "a">>, <<"info", "2">>>>,
      <<<<key, "b">>, <<"info", "1">>>>, <<<<"info", "1">>>>, <<<<key, None>>>> }

NtpRecords ==
    { <<<<"server-ip-addrv6", "::1">>, <<"priority", "1">>>>,
      <<<<"server-ip-addrv6", "::2">>>>, <<<<"priority", "1">>>> }

FdbRecords ==
    { <<<<"port", p>>, <<"vlan-id", v>>, <<"mac", m>>>> :
        p \in {"1/1/1", "1/1/2"}, v \in {"10", "20"}, m \in {"aa", "bb"} }
    \cup { <<<<"vlan-id", "10">>, <<"mac", "aa">>>>,
           <<<<"port", "1/1/1">>, <<"mac", "aa">>>>,
           <<<<"port", "1/1/1">>, <<"vlan-id", "10">>>> }

\* A reply listing the records under the hierarchy lines of its command.
TableDoc(recs) == Root(Hier("show", Instances(recs)))

TableOps == KeyedOps \cup {"get_ntp_servers", "get_vlan_bridge_port_fdb"}

TableRecords(name) ==
    CASE name \in KeyedOps -> KeyedRecords(OpKey(name))
      [] name = "get_ntp_servers" -> NtpRecords
      [] OTHER -> FdbRecords

\* What the device may answer to the command of a table operation.
TableReplies(name) ==
    {EmptyReply, GarbageReply}
    \cup {TableDoc(recs) : recs \in SeqsUpTo(TableRecords(name), MaxRecords)}

TableOp(name, data) ==
    CASE name \in KeyedOps -> KeyedOp(name, data)
      [] name = "get_ntp_servers" -> GetNtpServers(data)
      [] OTHER -> GetVlanBridgePortFdb(data)

TableCall(name) ==
    /\ op = "idle"
    /\ op' = name
    /\ pc' = 0
    /\ UNCHANGED <<variant, sent, replies, outcome, result, error, ports, filterVars, restVars>>

\* data = self._send_command(command, xml_format=True)
TableSend ==
    /\ op \in TableOps
    /\ pc = 0
    /\ sent' = Append(sent, CommandText(OpCommand(op), TRUE))
    /\ \E r \in TableReplies(op) :
          /\ raw' = Append(raw, r)
          /\ replies' = Append(replies, SendCommand(variant, TRUE, r))
    /\ pc' = 1
    /\ UNCHANGED <<variant, op, outcome, result, error, ports, filterVars, sanitized, self, commands>>

\* The rest of the operation: convert, group, return or raise.
TableFinish ==
    /\ op \in TableOps
    /\ pc = 1
    /\ outcome = "none"
    /\ LET r == TableOp(op, replies[1])
       IN  /\ outcome' = IF r.ok THEN "returned" ELSE "raised"
           /\ result' = [kind |-> r.kind, val |-> r.val]
           /\ error' = r.err
    /\ UNCHANGED <<variant, op, pc, sent, replies, ports, filterVars, restVars>>

InitTables == IdleCall /\ IdleFilter /\ SessionOpen

NextTables ==
    \/ \E name \in TableOps : TableCall(name)
    \/ TableSend
    \/ TableFinish

SpecTables == InitTables /\ [][NextTables]_vars

-----------------------------------------------------------------------------
(* Claims about the table operations.                                      *)

TableDone == op \in TableOps /\ pc = 1 /\ outcome # "none"

\* C5: the list that get_vlan_bridge_port_fdb stores under a port never holds
\* the same (vlan, mac) pair twice, however often the reply lists the pair and
\* whatever lies in between.
C5_NoPairTwicePerPort ==
    (op = "get_vlan_bridge_port_fdb" /\ outcome = "returned" /\ result.kind = "dict")
    => \A p \in DOMAIN result.val :
          \A i, j \in DOMAIN result.val[p] :
             i < j => result.val[p][i] # result.val[p][j]

\* C7: when the executor returns empty output, the operation completes
\* without error and returns an explicit "no data available" result, of
\* another kind than what it returns for a well-formed reply with no entries.
C7_NoDataIsExplicit ==
    (TableDone /\ replies[1] = EmptyReply)
    => /\ outcome = "returned"
       /\ result.kind = "str"
       /\ result.kind # TableOp(op, TableDoc(<<>>)).kind

\* The records convert_xml_to_list hands to _convert_list_to_dict.
DataList == ConvertXmlToList(replies[1]).list

\* The index of the last record of data whose key field is k.
LastWith(data, key, k) ==
    CHOOSE i \in DOMAIN data :
        /\ key \in DOMAIN data[i] /\ data[i][key] = k
        /\ \A j \in DOMAIN data :
              (key \in DOMAIN data[j] /\ data[j][key] = k) => j <= i

\* A keyed operation has been handed a list of records.
KeyedDone ==
    /\ op \in KeyedOps
    /\ TableDone
    /\ ConvertXmlToList(replies[1]).ok
    /\ ~ConvertXmlToList(replies[1]).none

\* C10: _convert_list_to_dict never raises; the keys of the mapping it returns
\* are exactly the key-field values that occur in the sequence, each key maps
\* to the last record that holds it, and records without the key field
\* contribute nothing.
C10_LastRecordWins ==
    KeyedDone
    => /\ outcome = "returned"
       /\ result.kind = "dict"
       /\ DOMAIN result.val =
             {DataList[i][OpKey(op)] :
                 i \in {j \in DOMAIN DataList : OpKey(op) \in DOMAIN DataList[j]}}
       /\ \A k \in DOMAIN result.val :
             result.val[k] = DataList[LastWith(DataList, OpKey(op), k)]

\* A keyed operation has returned for a reply with two different records
\* under one key and a record without the key field.
C10_Witness ==
    /\ KeyedDone
    /\ outcome = "returned"
    /\ \E i, j \in DOMAIN DataList :
          /\ i < j
          /\ OpKey(op) \in DOMAIN DataList[i] \cap DOMAIN DataList[j]
          /\ DataList[i][OpKey(op)] = DataList[j][OpKey(op)]
          /\ DataList[i] # DataList[j]
    /\ \E m \in DOMAIN DataList : OpKey(op) \notin DOMAIN DataList[m]

-----------------------------------------------------------------------------
(* convert_xml_to_list and _convert_xml_elem_to_dict on their own, over    *)
(* documents of many shapes.                                               *)

MaxBlocks == 2

\* <group name="g"> around lines: an element that is no hierarchy.
Group(lines) == <<<<Open("group", "g")>>>> \o lines \o <<<<Close("group")>>>>

\* The lines with one blank of indentation each.
Indented(lines) == [i \in DOMAIN lines |-> <<WS>> \o lines[i]]

\* What stands between the root tags of a document: instances as the device
\* prints them (below hierarchy lines, indented or not), an instance whose
\* fields repeat a name, one with a blank in a name, an empty field and a
\* repeated name, one
\* without fields, one inside another element, one on the hierarchy line,
\* one with the marker as data, one with a field without a name, and an
\* instance that is never closed.
Blocks ==
    { Instance(<<<<"a", "1">>>>),
      Hier("h", Instance(<<<<"a", "2">>, <<"b", "x">>>>)),
      Indented(Hier("h", Instance(<<<<"a", "3">>>>))),
      Instance(<<<<"a", "1">>, <<"a", "2">>>>),
      Hier("h", Instance(<<<<"association type", "x">>, <<"b", None>>,
                           <<"a", "1">>, <<"a", "2">>>>)),
      Instance(<<>>),
      Group(Instance(<<<<"a", "1">>>>)),
      <<Flatten(Hier("h", Instance(<<<<"a", "1">>>>)))>>,
      Instance(<<<<"a", "hierarchy">>, <<"b", "x">>>>),
      <<<<Open("instance", NoAttr)>>, Leaf("info", "a", "1"),
        <<Open("info", NoAttr), Close("info")>>, <<Close("instance")>>>>,
      <<<<Open("instance", NoAttr)>>, Leaf("info", "a", "1")>> }

\* The documents: up to MaxBlocks blocks in a root, the same on one line,
\* and the texts that are no document: nothing, a blank line, an error
\* message.
Documents ==
    LET bodies == {Flatten(bs) : bs \in SeqsUpTo(Blocks, MaxBlocks)}
    IN  {Root(b) : b \in bodies}
        \cup {<<Flatten(Root(Hier("h", <<>>)))>>, Indented(Root(<<>>)) \o <<<<WS>>>>,
              Indented(Root(Hier("h", Instance(<<<<"a", "1">>>>)))) \o <<<<WS>>>>}
        \cup {EmptyReply, <<<<WS>>>>, GarbageReply}

RecordOps == {"convert_xml_to_list", "_convert_xml_elem_to_dict"}

\* The elements of a document, <<>> when it does not parse.
Elements(doc) == FromString(doc).nodes

\* convert_xml_to_list(xml_data) is called.
ListerCall(xml_data) ==
    /\ op = "idle"
    /\ op' = "convert_xml_to_list"
    /\ replies' = <<xml_data>>
    /\ pc' = 0
    /\ UNCHANGED <<variant, sent, outcome, result, error, ports, filterVars, restVars>>

\* if xml_data: the loop over the lines and root.strip(); else: return
ListerSanitize ==
    /\ op = "convert_xml_to_list"
    /\ pc = 0
    /\ outcome = "none"
    /\ IF replies[1] = EmptyReply
       THEN /\ outcome' = "returned"
            /\ result' = [kind |-> "none", val |-> None]
            /\ UNCHANGED sanitized
       ELSE /\ sanitized' = Sanitize(replies[1])
            /\ UNCHANGED <<outcome, result>>
    /\ pc' = 1
    /\ UNCHANGED <<variant, op, sent, replies, error, ports, filterVars, raw, self, commands>>

\* ET.fromstring(root), the loop over the instances, return instances
ListerList ==
    /\ op = "convert_xml_to_list"
    /\ pc = 1
    /\ outcome = "none"
    /\ LET r == ConvertXmlToList(replies[1])
       IN  /\ outcome' = IF r.ok THEN "returned" ELSE "raised"
           /\ result' = IF r.ok THEN [kind |-> "list", val |-> r.list]
                        ELSE [kind |-> "none", val |-> None]
           /\ error' = r.err
    /\ pc' = 2
    /\ UNCHANGED <<variant, op, sent, replies, ports, filterVars, restVars>>

\* _convert_xml_elem_to_dict(elem=elem) is called on element i of a document.
FlattenCall(doc, i) ==
    /\ op = "idle"
    /\ i \in DOMAIN Elements(doc)
    /\ op' = "_convert_xml_elem_to_dict"
    /\ replies' = <<doc>>
    /\ pc' = i
    /\ UNCHANGED <<variant, sent, outcome, result, error, ports, filterVars, restVars>>

\* The loop over elem.iter(), return data
FlattenReturn ==
    /\ op = "_convert_xml_elem_to_dict"
    /\ outcome = "none"
    /\ LET r == ConvertXmlElemToDict(Elements(replies[1]), pc)
       IN  /\ outcome' = IF r.ok THEN "returned" ELSE "raised"
           /\ result' = IF r.ok THEN [kind |-> "dict", val |-> r.data]
                        ELSE [kind |-> "none", val |-> None]
           /\ error' = IF r.ok THEN "" ELSE "KeyError"
    /\ UNCHANGED <<variant, op, pc, sent, replies, ports, filterVars, restVars>>

InitRecords == IdleCall /\ IdleFilter /\ SessionOpen

NextRecords ==
    \/ \E xml_data \in Documents : ListerCall(xml_data)
    \/ ListerSanitize
    \/ ListerList
    \/ \E doc \in Documents : \E i \in 1..Len(Elements(doc)) : FlattenCall(doc, i)
    \/ FlattenReturn

SpecRecords == InitRecords /\ [][NextRecords]_vars

-----------------------------------------------------------------------------
(* Claims about the Record Lister.                                         *)

\* convert_xml_to_list has returned or raised; replies[1] is its xml_data.
ListerDone == op = "convert_xml_to_list" /\ outcome # "none"

\* The text as handed over is a well-formed document.
WellFormedInput == FromString(replies[1]).ok

\* The instance elements of the text as handed over, at any depth.
InstanceNodes == FindAllDeep(Elements(replies[1]), "instance")

\* Every child of an instance carries a name attribute.
ChildrenNamed ==
    \A k \in DOMAIN InstanceNodes :
        \A c \in Range(Children(Elements(replies[1]), InstanceNodes[k])) :
            Elements(replies[1])[c].name # NoAttr

\* The marker stands only on lines of their own: a line that holds it holds
\* nothing but hierarchy tags and white space.
MarkerLinesPlain ==
    \A i \in DOMAIN replies[1] :
        LineHasMarker(replies[1][i])
        => \A j \in DOMAIN replies[1][i] :
              replies[1][i][j].tag = "hierarchy" \/ IsSpace(replies[1][i][j])

\* The record of the k-th instance of the text: its children by name.
RecordOf(k) ==
    InstanceDictFrom(Elements(replies[1]),
                     Children(Elements(replies[1]), InstanceNodes[k]), 1, EmptyDict).data

\* C11: for a well-formed document with N instance nodes at any depth,
\* convert_xml_to_list returns exactly N records, one per instance node, in
\* document order.
C11_OneRecordPerInstance ==
    ListerDone /\ WellFormedInput /\ ChildrenNamed /\ MarkerLinesPlain
    => /\ outcome = "returned"
       /\ result.kind = "list"
       /\ Len(result.val) = Len(InstanceNodes)
       /\ \A k \in DOMAIN InstanceNodes : result.val[k] = RecordOf(k)

\* The text holds no instance tag.
NoInstanceInText ==
    \A i \in DOMAIN replies[1] :
        \A j \in DOMAIN replies[1][i] : replies[1][i][j].tag # "instance"

\* C12: when the text handed to convert_xml_to_list holds no instance node,
\* also after the lines with the marker are gone, it returns an empty
\* sequence of records: no error and no value that is not a sequence.
C12_NoInstanceGivesEmptyList ==
    ListerDone /\ NoInstanceInText /\ (replies[1] = EmptyReply \/ WellFormedInput)
    => /\ outcome = "returned"
       /\ result.kind = "list"
       /\ result.val = <<>>

\* The tags of a text, without its character data.
Markup(toks) == SelectSeq(toks, LAMBDA t : t.k \in {"open", "close"})

RECURSIVE Cancel(_)
\* What is left of the tags when every start tag directly followed by its
\* own end tag is taken out, again and again.
Cancel(m) ==
    IF \E i \in 1..(Len(m) - 1) :
          m[i].k = "open" /\ m[i + 1].k = "close" /\ m[i].tag = m[i + 1].tag
    THEN LET i == CHOOSE i \in 1..(Len(m) - 1) :
                      m[i].k = "open" /\ m[i + 1].k = "close" /\ m[i].tag = m[i + 1].tag
         IN  Cancel(SubSeq(m, 1, i - 1) \o SubSeq(m, i + 2, Len(m)))
    ELSE m

\* Start tags minus end tags among the first i tags.
DepthAt(m, i) ==
    Cardinality({j \in 1..i : m[j].k = "open"})
    - Cardinality({j \in 1..i : m[j].k = "close"})

\* The text is a well-formed document: its tags nest and pair up, one
\* element holds all the others, nothing but white space stands outside it
\* and no character is one XML forbids.
WellFormed(toks) ==
    LET m == Markup(toks)
    IN  /\ m # <<>>
        /\ Cancel(m) = <<>>
        /\ \A i \in 1..(Len(m) - 1) : DepthAt(m, i) > 0
        /\ \A i \in DOMAIN toks :
              /\ toks[i].k # "esc"
              /\ toks[i].k = "text" /\ ~IsSpace(toks[i])
                 => /\ \E j \in 1..(i - 1) : toks[j].k = "open"
                    /\ \E j \in (i + 1)..Len(toks) : toks[j].k = "close"

\* C15: when the text left by the marker stripping is not well-formed, the
\* parse of convert_xml_to_list fails with ParseError, the error is what
\* the call ends in, and no list, partial or not, is returned.
C15_MalformedRaisesParseError ==
    ListerDone /\ replies[1] # EmptyReply /\ ~WellFormed(sanitized)
    => /\ outcome = "raised"
       /\ error = "ParseError"
       /\ result = [kind |-> "none", val |-> None]

\* An instance that is never closed has made the call raise.
C15_Witness ==
    /\ ListerDone
    /\ sanitized # <<>>
    /\ \E i \in DOMAIN sanitized : sanitized[i].k = "open" /\ sanitized[i].tag = "instance"
    /\ Cancel(Markup(sanitized)) # <<>>
    /\ outcome = "raised"
    /\ error = "ParseError"

\* The direct instances of the sanitized document, as the lister sees them.
ListedNodes == ParseFrom(sanitized, 1, <<>>, <<>>).nodes

ListedInstances == FindAllChildren(ListedNodes, "instance")

\* convert_xml_to_list has returned a list, one record per listed instance.
ListReturned ==
    /\ ListerDone
    /\ outcome = "returned"
    /\ result.kind = "list"
    /\ Len(result.val) = Len(ListedInstances)

\* The children of the k-th listed instance.
ListedChildren(k) == Children(ListedNodes, ListedInstances[k])

\* C19 (as stated): a record has as many fields as its instance has
\* children, also when children repeat a name.
C19_FieldPerChild ==
    ListReturned
    => \A k \in DOMAIN result.val :
          Cardinality(DOMAIN result.val[k]) = Len(ListedChildren(k))

\* C19 (amended): a record has as many fields as there are different names
\* among the children of its instance.
C19_FieldPerName ==
    ListReturned
    => \A k \in DOMAIN result.val :
          Cardinality(DOMAIN result.val[k])
          = Cardinality({ListedNodes[c].name : c \in Range(ListedChildren(k))})

\* A record has come back for an instance with four children, two of them
\* with the same name and one of them empty: it has three fields.
C19_Witness ==
    /\ ListReturned
    /\ \E k \in DOMAIN result.val :
          /\ Len(ListedChildren(k)) = 4
          /\ \E c \in Range(ListedChildren(k)) : ListedNodes[c].text = None
          /\ Cardinality(DOMAIN result.val[k]) = 3

\* The marker stripping of convert_xml_to_list has run on a text of lines.
SanitizeDone == op = "convert_xml_to_list" /\ pc >= 1 /\ replies[1] # EmptyReply

RECURSIVE KeptFrom(_, _)
\* The lines from the i-th on that do not hold the marker, one after the
\* other with nothing between them.
KeptFrom(lines, i) ==
    IF i > Len(lines) THEN <<>>
    ELSE (IF LineHasMarker(lines[i]) THEN <<>> ELSE lines[i]) \o KeptFrom(lines, i + 1)

\* t is s without the white space at its two ends.
IsTrimOf(t, s) ==
    \E a \in 1..(Len(s) + 1) :
        \E b \in 0..Len(s) :
            /\ t = SubSeq(s, a, b)
            /\ \A i \in 1..(a - 1) : IsSpace(s[i])
            /\ \A i \in (b + 1)..Len(s) : IsSpace(s[i])
            /\ t # <<>> => ~IsSpace(t[1]) /\ ~IsSpace(t[Len(t)])

\* C20: the text convert_xml_to_list parses is the lines of its input that
\* do not hold "hierarchy", in their order, concatenated without separator,
\* with the white space at the two ends taken off: every line with the
\* marker is left out, every other line is there as it was.
C20_SanitizerKeepsOtherLines ==
    SanitizeDone => IsTrimOf(sanitized, KeptFrom(replies[1], 1))

\* An indented text of several lines with marker lines between the others
\* and a blank line at its end: lines were left out and both ends trimmed.
C20_Witness ==
    /\ SanitizeDone
    /\ Len(replies[1]) >= 5
    /\ \E i \in DOMAIN replies[1] : LineHasMarker(replies[1][i])
    /\ Len(KeptFrom(replies[1], 1)) < Len(Flatten(replies[1]))
    /\ sanitized # <<>>
    /\ Len(sanitized) = Len(KeptFrom(replies[1], 1)) - 2

-----------------------------------------------------------------------------
(* Claims about the Node Flattener.                                        *)

\* _convert_xml_elem_to_dict has returned or raised; replies[1] is the
\* document and pc the element it was called on.
FlattenDone == op = "_convert_xml_elem_to_dict" /\ outcome # "none"

\* The flattenable elements of the call: the element and its descendants
\* that are no instance, in document order.
Flattenable ==
    SelectSeq(Iter(Elements(replies[1]), pc),
              LAMBDA j : Elements(replies[1])[j].tag # "instance")

\* The last flattenable element whose name, spaces replaced, is key.
LastNamed(key) ==
    LET ns == Elements(replies[1])
        same == {i \in DOMAIN Flattenable : ReplaceSpaces(ns[Flattenable[i]].name) = key}
    IN  ns[Flattenable[CHOOSE i \in same : \A n \in same : n <= i]]

\* The last child of the k-th listed instance with the name of child c.
LastChildNamed(k, c) ==
    LET cs == Children(ListedNodes, ListedInstances[k])
        same == {i \in DOMAIN cs : ListedNodes[cs[i]].name = ListedNodes[c].name}
    IN  ListedNodes[cs[CHOOSE i \in same : \A n \in same : n <= i]]

\* C13 (as stated): looking up the flattened record by the exact value of
\* the name attribute of a flattenable descendant returns that descendant's
\* own text; an empty descendant is present.
C13_RoundTripByExactName ==
    /\ FlattenDone /\ outcome = "returned"
       => \A i \in DOMAIN Flattenable :
             LET e == Elements(replies[1])[Flattenable[i]]
             IN  e.name \in DOMAIN result.val /\ result.val[e.name] = e.text
    /\ ListerDone /\ outcome = "returned" /\ result.kind = "list"
       => \A k \in DOMAIN ListedInstances :
             \A c \in Range(Children(ListedNodes, ListedInstances[k])) :
                 /\ ListedNodes[c].name \in DOMAIN result.val[k]
                 /\ result.val[k][ListedNodes[c].name] = ListedNodes[c].text

\* C13 (amended): the lookup by the name with its spaces replaced by
\* underscores (by the exact name in convert_xml_to_list) returns the text
\* of the last flattenable descendant that carries this name; an empty
\* descendant is present with the value None.
C13_RoundTripByKey ==
    /\ FlattenDone /\ outcome = "returned"
       => \A i \in DOMAIN Flattenable :
             LET key == ReplaceSpaces(Elements(replies[1])[Flattenable[i]].name)
             IN  key \in DOMAIN result.val /\ result.val[key] = LastNamed(key).text
    /\ ListerDone /\ outcome = "returned" /\ result.kind = "list"
       => \A k \in DOMAIN ListedInstances :
             \A c \in Range(Children(ListedNodes, ListedInstances[k])) :
                 /\ ListedNodes[c].name \in DOMAIN result.val[k]
                 /\ result.val[k][ListedNodes[c].name] = LastChildNamed(k, c).text

\* A flattened instance whose fields hold a name with a blank, an empty
\* field and a name that two fields carry.
C13_Witness ==
    /\ FlattenDone /\ outcome = "returned"
    /\ {"association_type", "a", "b"} \subseteq DOMAIN result.val
    /\ result.val["b"] = None
    /\ result.val["a"] = "2"
    /\ \E i, j \in DOMAIN Flattenable :
          /\ i < j
          /\ Elements(replies[1])[Flattenable[i]].name = "a"
          /\ Elements(replies[1])[Flattenable[j]].name = "a"

\* C21: when an element the flattening works on has no name attribute (the
\* element itself or a descendant that is no instance in
\* _convert_xml_elem_to_dict, a child of a listed instance in
\* convert_xml_to_list), the call ends in the KeyError and returns no
\* record; when it returns, every element was named and every key is the
\* name of one of them.
C21_MissingNameIsFatal ==
    /\ FlattenDone
       => IF \E i \in DOMAIN Flattenable : Elements(replies[1])[Flattenable[i]].name = NoAttr
          THEN /\ outcome = "raised"
               /\ error = "KeyError"
               /\ result = [kind |-> "none", val |-> None]
          ELSE /\ outcome = "returned"
               /\ DOMAIN result.val
                  = {ReplaceSpaces(Elements(replies[1])[Flattenable[i]].name) :
                        i \in DOMAIN Flattenable}
    /\ ListerDone /\ replies[1] # EmptyReply /\ WellFormed(sanitized)
       => IF \E k \in DOMAIN ListedInstances :
                \E c \in Range(ListedChildren(k)) : ListedNodes[c].name = NoAttr
          THEN /\ outcome = "raised"
               /\ error = "KeyError"
               /\ result = [kind |-> "none", val |-> None]
          ELSE outcome = "returned"

\* The flattening of an instance has ended in the KeyError of a child
\* without a name attribute, after a child that has one.
C21_Witness ==
    /\ FlattenDone
    /\ Elements(replies[1])[pc].tag = "instance"
    /\ \E i, j \in DOMAIN Flattenable :
          /\ i < j
          /\ Elements(replies[1])[Flattenable[i]].name # NoAttr
          /\ Elements(replies[1])[Flattenable[j]].name = NoAttr
    /\ outcome = "raised"
    /\ error = "KeyError"

\* The remote-info command of a port.
LldpCommand(port) ==
    CommandText("show port " \o port \o " ethernet lldp remote-info", FALSE)

\* A line of the 'show port' text that names a port, by the rule of lines:
\* no separator, no header, not blank, not led by white space, and its last
\* word is not "vport".
NamesPort(line) ==
    /\ ~line.indent
    /\ line.words # <<>>
    /\ \A prefix \in {"=", "-", "Port", "Id"} : ~StartsWith(line.words[1], prefix)
    /\ line.words[Len(line.words)] # "vport"

\* C22: the ports the LLDP operations ask about are, in listing order, the
\* first words of exactly the lines of the 'show port' text that name a
\* port, and a remote-info command goes out for no other line.
C22_PortListByLineShape ==
    op \in LldpOps /\ pc >= 1
    => /\ ports = [i \in DOMAIN SelectSeq(replies[1], NamesPort) |->
                      SelectSeq(replies[1], NamesPort)[i].words[1]]
       /\ \A i \in 2..Len(sent) :
             \E k \in DOMAIN replies[1] :
                 NamesPort(replies[1][k]) /\ sent[i] = LldpCommand(replies[1][k].words[1])

\* C23: get_vlan_bridge_port_fdb on a reply that lists records returns a
\* grouping in which every (vlan-id, mac) pair a record gives for a port
\* stands in that port's list, also a pair whose mac the port already has
\* under another vlan-id; a record without the port, vlan-id or mac field does
\* not make the operation fail.
C23_EveryPairKept ==
    (op = "get_vlan_bridge_port_fdb" /\ TableDone /\ FromString(replies[1]).ok)
    => /\ outcome = "returned"
       /\ result.kind = "dict"
       /\ \A k \in DOMAIN DataList :
             {"port", "vlan-id", "mac"} \subseteq DOMAIN DataList[k]
             => /\ DataList[k]["port"] \in DOMAIN result.val
                /\ <<DataList[k]["vlan-id"], DataList[k]["mac"]>>
                   \in Range(result.val[DataList[k]["port"]])

\* The port fields of the instances of the 'show interface port' reply of
\* the call, in document order, that hold no "vlan".
PortsToList ==
    LET nodes == FromString(replies[5]).nodes
        js == FindAllDeep(nodes, "instance")
        data == [k \in DOMAIN js |-> ConvertXmlElemToDict(nodes, js[k]).data]
        listed == SelectSeq(data, LAMBDA d :
                     /\ "port" \in DOMAIN d
                     /\ d["port"] # None
                     /\ ~Contains(Chars(d["port"]), Chars("vlan")))
    IN  [k \in DOMAIN listed |-> listed[k]["port"]]

\* C24: in the top variant of get_facts, interface_list holds one entry for
\* each instance of the 'show interface port' reply with a port field that
\* holds no "vlan", and nothing else: an instance without a port field adds
\* no entry and raises no error.
C24_OneEntryPerPortInstance ==
    (variant = "top" /\ FactsDone /\ FromString(replies[5]).ok)
    => /\ error # "UnboundLocalError"
       /\ outcome = "returned"
          => /\ Len(result["interface_list"]) = Len(PortsToList)
             /\ Range(result["interface_list"]) = Range(PortsToList)

-----------------------------------------------------------------------------
(* get_interfaces (nested variant).                                        *)

InterfacesCommands ==
    <<CommandText("show equipment ont status pon", TRUE),
      CommandText("show equipment ont status x-pon", TRUE)>>

\* "up" in v for the status texts of the model; None is not iterable.
UpIn(v) == v = "up"

\* The entry get_interfaces writes for an ONT; speed says which source.
InterfaceEntry(dummy_data, speed) ==
    [ is_enabled |-> UpIn(Get(dummy_data, "admin-status", "")),
      is_up |-> UpIn(Get(dummy_data, "oper-status", "")),
      description |-> Get(dummy_data, "desc1", ""),
      mac_address |-> "0000.0000.0000",
      last_flapped |-> -1,
      mtu |-> 0,
      speed |-> speed ]

RECURSIVE InterfacesLoop(_, _, _, _, _)
\* for elem in tree.findall(".//instance"): the whole entry of the ONT is
\* assigned, whatever the dictionary held for it.
InterfacesLoop(nodes, js, k, speed, st) ==
    IF k > Len(js) \/ ~st.ok THEN st
    ELSE LET d == ConvertXmlElemToDict(nodes, js[k])
         IN  IF ~d.ok THEN Raise(st, "KeyError")
             ELSE IF "ont" \notin DOMAIN d.data
             THEN InterfacesLoop(nodes, js, k + 1, speed, st)
             ELSE IF Get(d.data, "admin-status", "") = None
                     \/ Get(d.data, "oper-status", "") = None
             THEN Raise(st, "TypeError")
             ELSE InterfacesLoop(nodes, js, k + 1, speed,
                     [st EXCEPT !.dict = Put(@, d.data["ont"],
                                             InterfaceEntry(d.data, speed))])

\* One of the two loops of get_interfaces on the tree of its reply.
InterfacesFrom(reply, speed, interface_dict) ==
    LET nodes == FromString(reply).nodes
    IN  InterfacesLoop(nodes, FindAllDeep(nodes, "instance"), 1, speed,
                       [ok |-> TRUE, err |-> "", dict |-> interface_dict])

MaxOnts == 2

\* The instances of an ONT status reply: an ONT that is up and described,
\* the same ONT down and without description, another ONT, an ONT with an
\* empty status, an instance without the ont field.
OntEntries ==
    { <<<<"ont", "1/1/1/1/1">>, <<"admin-status", "up">>, <<"oper-status", "up">>,
        <<"desc1", "test">>>>,
      <<<<"ont", "1/1/1/1/1">>, <<"admin-status", "down">>>>,
      <<<<"ont", "1/1/1/1/2">>, <<"admin-status", "up">>, <<"oper-status", "down">>,
        <<"desc1", None>>>>,
      <<<<"ont", "1/1/1/1/2">>, <<"admin-status", None>>>>,
      <<<<"sernum", "ALCL">>>> }

OntReplies ==
    {EmptyReply}
    \cup {Root(Hier("ont", Instances(recs))) : recs \in SeqsUpTo(OntEntries, MaxOnts)}

InterfacesCall ==
    /\ op = "idle"
    /\ op' = "get_interfaces"
    /\ pc' = 1
    /\ UNCHANGED <<variant, sent, replies, outcome, result, error, ports, filterVars, restVars>>

\* pon_output, xpon_output = self._send_command(..., xml_format=True)
InterfacesSend ==
    /\ op = "get_interfaces"
    /\ pc \in 1..2
    /\ sent' = Append(sent, InterfacesCommands[pc])
    /\ \E r \in OntReplies :
          /\ raw' = Append(raw, r)
          /\ replies' = Append(replies, SendCommand(variant, TRUE, r))
    /\ pc' = pc + 1
    /\ UNCHANGED <<variant, op, outcome, result, error, ports, filterVars, sanitized, self, commands>>

\* The two ET.fromstring calls and interface_dict = {}
InterfacesParse ==
    /\ op = "get_interfaces"
    /\ pc = 3
    /\ outcome = "none"
    /\ IF FromString(replies[1]).ok /\ FromString(replies[2]).ok
       THEN /\ result' = EmptyDict
            /\ pc' = 4
            /\ UNCHANGED <<outcome, error>>
       ELSE /\ outcome' = "raised"
            /\ error' = "ParseError"
            /\ UNCHANGED <<result, pc>>
    /\ UNCHANGED <<variant, op, sent, replies, ports, filterVars, restVars>>

\* The two loops with the dictionary kept in self.interface_map from one
\* call to the next.
InterfacesMergeCached ==
    /\ op = "get_interfaces"
    /\ pc \in 4..5
    /\ outcome = "none"
    /\ LET st == InterfacesFrom(replies[pc - 3], IF pc = 4 THEN 1000 ELSE 10000,
                                IF pc = 4 THEN self.interface_map ELSE result)
       IN  /\ result' = st.dict
           /\ self' = [self EXCEPT !.interface_map = st.dict]
           /\ error' = st.err
           /\ outcome' = IF ~st.ok THEN "raised"
                         ELSE IF pc = 5 THEN "returned" ELSE "none"
    /\ pc' = pc + 1
    /\ UNCHANGED <<variant, op, sent, replies, ports, filterVars, raw, sanitized, commands>>

\* "parse 1GE ports" (pc = 4) and "parse 10GE ports (X-PON)" (pc = 5), and
\* after the second loop return interface_dict.
InterfacesMerge ==
    /\ op = "get_interfaces"
    /\ pc \in 4..5
    /\ outcome = "none"
    /\ LET st == InterfacesFrom(replies[pc - 3], IF pc = 4 THEN 1000 ELSE 10000, result)
       IN  /\ result' = st.dict
           /\ error' = st.err
           /\ outcome' = IF ~st.ok THEN "raised"
                         ELSE IF pc = 5 THEN "returned" ELSE "none"
    /\ pc' = pc + 1
    /\ UNCHANGED <<variant, op, sent, replies, ports, filterVars, restVars>>

InitInterfaces == IdleCall /\ IdleFilter /\ SessionOpen

NextInterfaces ==
    \/ InterfacesCall
    \/ InterfacesSend
    \/ InterfacesParse
    \/ InterfacesMerge

SpecInterfaces == InitInterfaces /\ [][NextInterfaces]_vars

\* The value an entry holds for a field nothing was found for.
InterfaceDefault(f) == IF f = "description" THEN "" ELSE FALSE

\* C14: in the merge of get_interfaces, a field of an interface that the pon
\* source has set to a value other than its default is not back at its
\* default after the x-pon source.
C14_LaterSourceNeverBlanks ==
    [][ op = "get_interfaces" /\ pc = 5 /\ outcome' = "returned"
        => \A ont \in DOMAIN result :
              \A f \in {"is_enabled", "is_up", "description"} :
                  result[ont][f] # InterfaceDefault(f)
                  => result'[ont][f] # InterfaceDefault(f) ]_vars

-----------------------------------------------------------------------------
(* get_vlans, in both variants.                                            *)

VlansCommands ==
    <<CommandText("show vlan name", TRUE),
      CommandText("show vlan residential-bridge extensive", TRUE)>>

RECURSIVE Replace(_, _, _)
\* s.replace(old, new) on characters.
Replace(s, old, new) ==
    IF Len(s) < Len(old) THEN s
    ELSE IF SubSeq(s, 1, Len(old)) = old
    THEN new \o Replace(SubSeq(s, Len(old) + 1, Len(s)), old, new)
    ELSE <<Head(s)>> \o Replace(Tail(s), old, new)

\* The key of a VLAN: int(text) in the nested variant, the text in the top one.
VlanKey(v, text) == IF v = "nested" THEN ToInt(Chars(text)) ELSE text

\* The port of a residential-bridge record.  nested: port_raw.split(":")[1];
\* top: ":".join(port_raw.replace("vlan-port", "uni").split(":")[0:2]).
VlanPort(v, port_raw) ==
    LET parts == Split(IF v = "nested" THEN Chars(port_raw)
                       ELSE Replace(Chars(port_raw), Chars("vlan-port"), Chars("uni")),
                       ":")
    IN  IF v = "nested"
        THEN IF Len(parts) < 2 THEN [ok |-> FALSE, port |-> ""]
             ELSE [ok |-> TRUE, port |-> Str(parts[2])]
        ELSE [ok |-> TRUE,
              port |-> Str(IF Len(parts) < 2 THEN parts[1]
                           ELSE parts[1] \o <<":">> \o parts[2])]

\* "single-tagged" in mode or "untagged" in mode, for the modes of the model.
ModeListed(mode) == mode \in {"single-tagged", "untagged"}

RECURSIVE VlanNameLoop(_, _, _, _, _)
\* for elem in output_xml_tree.findall(".//instance"): the first record of
\* an id gives the entry.
VlanNameLoop(v, nodes, js, k, st) ==
    IF ~st.ok \/ k > Len(js) THEN st
    ELSE LET d == ConvertXmlElemToDict(nodes, js[k])
         IN  IF ~d.ok \/ "id" \notin DOMAIN d.data THEN Raise(st, "KeyError")
             ELSE IF VlanKey(v, d.data["id"]) \in DOMAIN st.vlans
             THEN VlanNameLoop(v, nodes, js, k + 1, st)
             ELSE IF "name" \notin DOMAIN d.data THEN Raise(st, "KeyError")
             ELSE VlanNameLoop(v, nodes, js, k + 1,
                     [st EXCEPT !.vlans =
                         Put(@, VlanKey(v, d.data["id"]),
                             [name |-> d.data["name"], interfaces |-> <<>>])])

RECURSIVE VlanTagLoop(_, _, _, _, _)
\* for elem in tag_xml_tree.findall(".//instance"): vlans[vlan_id] is a
\* KeyError for an id the name reply did not list.
VlanTagLoop(v, nodes, js, k, st) ==
    IF ~st.ok \/ k > Len(js) THEN st
    ELSE LET d == ConvertXmlElemToDict(nodes, js[k])
             vlan_id == VlanKey(v, d.data["vlan-id"])
             port == VlanPort(v, d.data["vlan-port"])
         IN  IF ~d.ok \/ "vlan-id" \notin DOMAIN d.data
                \/ "vlan-port" \notin DOMAIN d.data
             THEN Raise(st, "KeyError")
             ELSE IF ~port.ok THEN Raise(st, "IndexError")
             ELSE IF "transmit-mode" \notin DOMAIN d.data THEN Raise(st, "KeyError")
             ELSE IF ~ModeListed(d.data["transmit-mode"])
             THEN VlanTagLoop(v, nodes, js, k + 1, st)
             ELSE IF vlan_id \notin DOMAIN st.vlans THEN Raise(st, "KeyError")
             ELSE VlanTagLoop(v, nodes, js, k + 1,
                     [st EXCEPT !.vlans[vlan_id].interfaces = Append(@, port.port)])

\* get_vlans once its two replies are in.
GetVlans(v, rs) ==
    LET output_xml_tree == FromString(rs[1])
        tag_xml_tree == FromString(rs[2])
        st1 == VlanNameLoop(v, output_xml_tree.nodes,
                            FindAllDeep(output_xml_tree.nodes, "instance"), 1,
                            [ok |-> TRUE, err |-> "", vlans |-> EmptyDict])
        st2 == VlanTagLoop(v, tag_xml_tree.nodes,
                           FindAllDeep(tag_xml_tree.nodes, "instance"), 1, st1)
    IN  IF ~(output_xml_tree.ok /\ tag_xml_tree.ok)
        THEN [ok |-> FALSE, err |-> "ParseError", vlans |-> EmptyDict]
        ELSE IF ~st2.ok THEN [ok |-> FALSE, err |-> st2.err, vlans |-> EmptyDict]
        ELSE st2

MaxVlans == 2

\* The records of 'show vlan name': two with the same id, another VLAN, a
\* record without id.
VlanNameRecords ==
    { <<<<"id", "10">>, <<"name", "a">>>>, <<<<"id", "10">>, <<"name", "b">>>>,
      <<<<"id", "20">>, <<"name", "c">>>>, <<<<"name", "d">>>> }

\* The records of 'show vlan residential-bridge extensive': ports of the
\* VLANs 10 and 20 in the three modes, ports of a VLAN 30 and a port text
\* without colon.
VlanBridgeRecords ==
    { <<<<"vlan-id", "10">>, <<"vlan-port", "vlan-port:1/1/1/1:10">>,
        <<"transmit-mode", "single-tagged">>>>,
      <<<<"vlan-id", "10">>, <<"vlan-port", "vlan-port:1/1/1/2:10">>,
        <<"transmit-mode", "untagged">>>>,
      <<<<"vlan-id", "20">>, <<"vlan-port", "vlan-port:1/1/1/1:10">>,
        <<"transmit-mode", "tagged">>>>,
      <<<<"vlan-id", "20">>, <<"vlan-port", "vlan-port:1/1/1/2:10">>,
        <<"transmit-mode", "untagged">>>>,
      <<<<"vlan-id", "30">>, <<"vlan-port", "vlan-port:1/1/1/1:10">>,
        <<"transmit-mode", "untagged">>>>,
      <<<<"vlan-id", "30">>, <<"vlan-port", "vlan-port:1/1/1/1:10">>,
        <<"transmit-mode", "tagged">>>>,
      <<<<"vlan-id", "10">>, <<"vlan-port", "1/1/1/3">>,
        <<"transmit-mode", "untagged">>>> }

VlansReplies(k) ==
    {EmptyReply}
    \cup { Root(Hier("vlan", Instances(recs))) :
             recs \in SeqsUpTo(IF k = 1 THEN VlanNameRecords ELSE VlanBridgeRecords,
                               MaxVlans) }

VlansCall(v) ==
    /\ op = "idle"
    /\ variant' = v
    /\ op' = "get_vlans"
    /\ pc' = 1
    /\ UNCHANGED <<sent, replies, outcome, result, error, ports, filterVars, restVars>>

\* vlan_name_output, tagging_output = self._send_command(..., xml_format=True)
VlansSend ==
    /\ op = "get_vlans"
    /\ pc \in 1..2
    /\ sent' = Append(sent, VlansCommands[pc])
    /\ \E r \in VlansReplies(pc) :
          /\ raw' = Append(raw, r)
          /\ replies' = Append(replies, SendCommand(variant, TRUE, r))
    /\ pc' = pc + 1
    /\ UNCHANGED <<variant, op, outcome, result, error, ports, filterVars, sanitized, self, commands>>

\* The two parses, the two loops, return vlans.
VlansFinish ==
    /\ op = "get_vlans"
    /\ pc = 3
    /\ outcome = "none"
    /\ LET r == GetVlans(variant, replies)
       IN  /\ outcome' = IF r.ok THEN "returned" ELSE "raised"
           /\ result' = r.vlans
           /\ error' = r.err
    /\ UNCHANGED <<variant, op, pc, sent, replies, ports, filterVars, restVars>>

InitVlans == IdleCall /\ IdleFilter /\ SessionOpen

NextVlans ==
    \/ \E v \in Variants : VlansCall(v)
    \/ VlansSend
    \/ VlansFinish

SpecVlans == InitVlans /\ [][NextVlans]_vars

-----------------------------------------------------------------------------
(* Claims about get_vlans.                                                 *)

VlansDone == op = "get_vlans" /\ outcome # "none"

\* The records of the k-th reply of the call, in document order.
VlanData(k) ==
    LET nodes == FromString(replies[k]).nodes
        js == FindAllDeep(nodes, "instance")
    IN  [i \in DOMAIN js |-> ConvertXmlElemToDict(nodes, js[i]).data]

\* Both replies are documents, every name record has its id and every
\* bridge record a port text with a colon in it.
VlanRepliesComplete ==
    /\ FromString(replies[1]).ok /\ FromString(replies[2]).ok
    /\ \A i \in DOMAIN VlanData(1) : {"id", "name"} \subseteq DOMAIN VlanData(1)[i]
    /\ \A i \in DOMAIN VlanData(2) :
          Contains(Chars(VlanData(2)[i]["vlan-port"]), <<":">>)

\* The ports of the bridge records of a VLAN id in a listed mode, in
\* document order.
ListedPorts(id) ==
    LET recs == SelectSeq(VlanData(2), LAMBDA d :
                   d["vlan-id"] = id /\ ModeListed(d["transmit-mode"]))
    IN  [i \in DOMAIN recs |-> VlanPort(variant, recs[i]["vlan-port"]).port]

\* C25: get_vlans returns one entry per VLAN id of the name reply, named by
\* the first record of the id, whose interfaces are the ports of the bridge
\* records of that VLAN in a single-tagged or untagged mode, in document
\* order; a bridge record of a VLAN id the name reply does not list does
\* not make the operation fail.
C25_VlansWithTheirPorts ==
    VlansDone /\ VlanRepliesComplete
    => /\ outcome = "returned"
       /\ DOMAIN result = {VlanKey(variant, VlanData(1)[i]["id"]) : i \in DOMAIN VlanData(1)}
       /\ \A i \in DOMAIN VlanData(1) :
             LET id == VlanData(1)[i]["id"]
                 first == CHOOSE j \in DOMAIN VlanData(1) :
                             /\ VlanData(1)[j]["id"] = id
                             /\ \A n \in 1..(j - 1) : VlanData(1)[n]["id"] # id
             IN  /\ result[VlanKey(variant, id)].name = VlanData(1)[first]["name"]
                 /\ result[VlanKey(variant, id)].interfaces = ListedPorts(id)

-----------------------------------------------------------------------------
(* cli (nested variant).                                                   *)

MaxCommands == 2

\* The commands a client may hand to cli, what the device may answer, and
\* the messages of the exceptions send_command may raise.
CliCommands == {"show a", "show b", "show c"}
CliReplies == {"r1", "r2"}
CliErrors == {"Pattern not detected", "Socket is closed"}

\* cli(commands) is called: output = {}
CliCall(cmds) ==
    /\ op = "idle"
    /\ op' = "cli"
    /\ commands' = cmds
    /\ pc' = 1
    /\ result' = [kind |-> "dict", val |-> EmptyDict]
    /\ UNCHANGED <<variant, sent, replies, outcome, error, ports, filterVars,
                   raw, sanitized, self>>

\* One iteration of the loop: output[cmd] = self._send_command(cmd)
CliSend ==
    /\ op = "cli"
    /\ outcome = "none"
    /\ pc <= Len(commands)
    /\ sent' = Append(sent, CommandText(commands[pc], FALSE))
    /\ \E r \in CliReplies :
          /\ raw' = Append(raw, r)
          /\ replies' = Append(replies, r)
          /\ result' = [result EXCEPT !.val = Put(@, commands[pc], r)]
    /\ pc' = pc + 1
    /\ UNCHANGED <<variant, op, outcome, error, ports, filterVars, sanitized, self,
                   commands>>

\* The failing iteration without the except clause: the exception leaves cli.
CliSendRaises ==
    /\ op = "cli"
    /\ outcome = "none"
    /\ pc <= Len(commands)
    /\ sent' = Append(sent, CommandText(commands[pc], FALSE))
    /\ \E e \in CliErrors : error' = e
    /\ outcome' = "raised"
    /\ UNCHANGED <<variant, op, pc, replies, result, ports, filterVars, restVars>>

\* An iteration in which send_command raises: except Exception as e:
\* return str(e)
CliSendFails ==
    /\ op = "cli"
    /\ outcome = "none"
    /\ pc <= Len(commands)
    /\ sent' = Append(sent, CommandText(commands[pc], FALSE))
    /\ \E e \in CliErrors :
          /\ error' = e
          /\ result' = [kind |-> "str", val |-> e]
    /\ outcome' = "returned"
    /\ UNCHANGED <<variant, op, pc, replies, ports, filterVars, restVars>>

\* return output
CliReturn ==
    /\ op = "cli"
    /\ outcome = "none"
    /\ pc > Len(commands)
    /\ outcome' = "returned"
    /\ UNCHANGED <<variant, op, pc, sent, replies, result, error, ports, filterVars,
                   restVars>>

InitCli == IdleCall /\ IdleFilter /\ SessionOpen

NextCli ==
    \/ \E cmds \in SeqsUpTo(CliCommands, MaxCommands) : CliCall(cmds)
    \/ CliSend
    \/ CliSendFails
    \/ CliReturn

SpecCli == InitCli /\ [][NextCli]_vars

\* send_command has raised in this call: a command without a reply.
CliFailed == op = "cli" /\ Len(replies) < Len(sent)

\* The reply to the last sending of command c.
LastReplyTo(c) ==
    replies[CHOOSE i \in DOMAIN replies :
                /\ commands[i] = c
                /\ \A j \in DOMAIN replies : commands[j] = c => j <= i]

\* C26: cli sends the commands one by one in the order given; when all
\* were answered it returns the mapping from each command to its reply;
\* when a sending raises, cli raises nothing, sends no further command and
\* returns the message of the error as a string, without the replies it
\* had collected.
C26_CliMapsOrReturnsMessage ==
    [][ /\ op' = "cli"
           => /\ Len(sent') <= Len(commands')
              /\ sent' = SubSeq(commands', 1, Len(sent'))
              /\ Len(sent') <= Len(replies') + 1
              /\ outcome' # "raised"
        /\ op' = "cli" /\ outcome' = "returned" /\ Len(replies') = Len(sent')
           => /\ sent' = commands'
              /\ result'.kind = "dict"
              /\ DOMAIN result'.val = Range(commands')
              /\ \A c \in Range(commands') : result'.val[c] = LastReplyTo(c)'
        /\ CliFailed'
           => /\ outcome' = "returned"
              /\ result' = [kind |-> "str", val |-> error']
              /\ error' \in CliErrors
        /\ CliFailed => sent' = sent
      ]_vars

\* The second of two commands has failed after the first was answered.
C26_Witness ==
    /\ CliFailed
    /\ Len(commands) = 2
    /\ Len(replies) = 1
    /\ outcome = "returned"
    /\ result.kind = "str"

-----------------------------------------------------------------------------
(* The driver across calls: open(), any number of fact retrievals one      *)
(* after the other, close().                                               *)

\* open(): self.device = ConnectHandler(...)
DriverOpen ==
    /\ op = "idle"
    /\ self.device # Connected
    /\ self' = [self EXCEPT !.device = Connected]
    /\ UNCHANGED <<callVars, filterVars, raw, sanitized, commands>>

\* close(): self.device.disconnect()
DriverClose ==
    /\ op = "idle"
    /\ self.device = Connected
    /\ self' = [self EXCEPT !.device = Disconnected]
    /\ UNCHANGED <<callVars, filterVars, raw, sanitized, commands>>

\* The plugin calls a fact retrieval on the open session.
DriverCall ==
    /\ self.device = Connected
    /\ \/ \E v \in Variants : FactsCall(v)
       \/ \E fn \in LldpOps : LldpCall(fn)
       \/ \E name \in TableOps : TableCall(name)
       \/ InterfacesCall
       \/ \E v \in Variants : VlansCall(v)

\* The caller has the value or the exception; every local of the call is gone.
CallEnd ==
    /\ op # "idle"
    /\ outcome # "none"
    /\ variant' = "nested"
    /\ op' = "idle"
    /\ pc' = 0
    /\ sent' = <<>>
    /\ replies' = <<>>
    /\ outcome' = "none"
    /\ result' = None
    /\ error' = ""
    /\ ports' = <<>>
    /\ raw' = <<>>
    /\ UNCHANGED <<filterVars, sanitized, self, commands>>

InitDriver == IdleCall /\ IdleFilter /\ self = NewDriver

NextDriver ==
    \/ DriverOpen
    \/ DriverClose
    \/ DriverCall
    \/ FactsSend
    \/ FactsAggregate
    \/ LldpShowPort
    \/ \E b \in LldpBlocks : LldpNeighbor(b)
    \/ LldpReturn
    \/ TableSend
    \/ TableFinish
    \/ InterfacesSend
    \/ InterfacesParse
    \/ InterfacesMerge
    \/ VlansSend
    \/ VlansFinish
    \/ CallEnd

SpecDriver == InitDriver /\ [][NextDriver]_vars

RECURSIVE LldpFrom(_, _, _, _, _)
\* The neighbors of the ports from the k-th on, by the replies of this call
\* alone: reply k + 1 is the one to the command of port k.
LldpFrom(fn, ps, rs, k, lldp) ==
    IF k > Len(ps) THEN lldp
    ELSE LET r == IF fn = "get_lldp_neighbors"
                  THEN NeighborStep(lldp, ps[k], rs[k + 1])
                  ELSE NeighborDetailStep(lldp, ps[k], rs[k + 1])
         IN  LldpFrom(fn, ps, rs, k + 1, r.lldp)

\* What a call that returned must have returned, by its replies alone.
ResultOf(fn, v, rs) ==
    CASE fn = "get_facts" -> GetFacts(v, rs).facts
      [] fn \in LldpOps -> LldpFrom(fn, PortList(rs[1]), rs, 1, EmptyDict)
      [] fn \in TableOps ->
            LET r == TableOp(fn, rs[1]) IN [kind |-> r.kind, val |-> r.val]
      [] fn = "get_vlans" -> GetVlans(v, rs).vlans
      [] OTHER -> InterfacesFrom(rs[2], 10000,
                                 InterfacesFrom(rs[1], 1000, EmptyDict).dict).dict

\* C16: no step of a fact retrieval changes an attribute of the driver
\* (the connection handle, open or closed, the host name, the credentials,
\* interface_map, profile), and whatever calls went before, a call that
\* returns gives the value its own replies determine.
C16_RetrievalLeavesDriverAlone ==
    [][ /\ op # "idle" \/ op' # "idle" => self' = self
        /\ op' # "idle" /\ outcome' = "returned" => result' = ResultOf(op', variant', replies')
      ]_vars

\* get_interfaces has returned interfaces and the driver is as open() left it.
C16_Witness ==
    /\ op = "get_interfaces"
    /\ outcome = "returned"
    /\ DOMAIN result # {}
    /\ self = [NewDriver EXCEPT !.device = Connected]

\* The reply that came back for a command of the call in progress.
ReplyTo(command) == replies[CHOOSE k \in DOMAIN sent : sent[k] = command]

\* The entry an LLDP operation extracts for a port from one reply.
EntryFrom(fn, port, reply) ==
    IF fn = "get_lldp_neighbors" THEN NeighborStep(EmptyDict, port, reply).lldp
    ELSE NeighborDetailStep(EmptyDict, port, reply).lldp

\* C17: every command has its reply before the next one goes out; get_facts
\* sends its commands in the one fixed order and reads each fact from the
\* reply to the command that asks for it; the LLDP operations send 'show
\* port' first, then one remote-info command per listed port in listing
\* order, and an entry stands under the port whose command's reply it was
\* extracted from.
C17_SequentialCommandsMatchedReplies ==
    /\ Len(replies) = Len(sent)
    /\ Len(raw) = Len(sent)
    /\ op = "get_facts"
       => /\ Len(sent) <= Len(FactsCommands(variant))
          /\ sent = SubSeq(FactsCommands(variant), 1, Len(sent))
          /\ outcome # "none" => sent = FactsCommands(variant)
    /\ FactsReturned
       => /\ ("os_version" \in DOMAIN result /\ result["os_version"] # "")
             <=> Supplies(ReplyTo("show software-mngt version ansi xml"),
                          "ansi", "isam-feature-group")
          /\ ("serial_number" \in DOMAIN result /\ result["serial_number"] # "")
             <=> Supplies(ReplyTo("show equipment shelf 1/1 detail xml"),
                          "shelf", "serial-no")
    /\ op \in LldpOps /\ sent # <<>>
       => /\ sent[1] = "show port"
          /\ ports = PortList(replies[1])
          /\ Len(sent) <= 1 + Len(ports)
          /\ \A i \in 2..Len(sent) : sent[i] = LldpCommand(ports[i - 1])
          /\ outcome = "returned" => Len(sent) = 1 + Len(ports)
          /\ \A port \in DOMAIN result :
                \E i \in 2..Len(sent) :
                    /\ sent[i] = LldpCommand(port)
                    /\ port \in DOMAIN EntryFrom(op, port, replies[i])
                    /\ result[port] = EntryFrom(op, port, replies[i])[port]

\* An LLDP operation has returned neighbors for two ports.
C17_Witness ==
    /\ op \in LldpOps
    /\ outcome = "returned"
    /\ Len(sent) = 3
    /\ Cardinality(DOMAIN result) = 2

\* C18: in either variant, what get_facts hands to its parsers for a
\* command is the device's output for that command after the escape
\* filter, never the output as it came.
C18_EveryReplyFiltered ==
    op = "get_facts"
    => \A i \in DOMAIN replies : FactsXml(i) => replies[i] = FilterReply(raw[i])

-----------------------------------------------------------------------------
(* The escape filter on the raw output, character by character.            *)

MaxBuf == 8

\* The characters of the raw text: a prefix character, ESC, and the
\* characters of the shortest code, ESC[m.
BufChars == {"-", ESC, "[", "m"}

\* device.send_command delivers one more character of its output.
Receive(c) ==
    /\ op = "idle"
    /\ Len(buf) < MaxBuf
    /\ buf' = Append(buf, c)
    /\ UNCHANGED <<callVars, filtered, refiltered, restVars>>

\* output = self._strip_ansi_escape_codes(output)
Strip ==
    /\ op = "idle"
    /\ op' = "_strip_ansi_escape_codes"
    /\ pc' = 1
    /\ variant' = "top"
    /\ filtered' = StripAnsiEscapeCodes(buf)
    /\ UNCHANGED <<sent, replies, outcome, result, error, ports, buf, refiltered, restVars>>

\* The filter applied to its own output.
StripAgain ==
    /\ op = "_strip_ansi_escape_codes"
    /\ pc = 1
    /\ pc' = 2
    /\ refiltered' = StripAnsiEscapeCodes(filtered)
    /\ UNCHANGED <<variant, op, sent, replies, outcome, result, error, ports, buf, filtered,
                 restVars>>

InitFilter == IdleCall /\ IdleFilter /\ SessionOpen

NextFilter ==
    \/ \E c \in BufChars : Receive(c)
    \/ Strip
    \/ StripAgain

SpecFilter == InitFilter /\ [][NextFilter]_vars

-----------------------------------------------------------------------------
(* Claims about the escape filter.                                         *)

\* The filter has returned its output for buf.
StripDone == op = "_strip_ansi_escape_codes"

\* The filter has also been applied to its own output.
StripAgainDone == StripDone /\ pc = 2

RECURSIVE SequenceEnd(_, _, _)
\* The position after the control sequence that starts at position i of s
\* (ESC and a code of the catalog), 0 when none starts there.
SequenceEnd(s, i, k) ==
    IF k > Len(CodeSet) \/ i > Len(s) \/ s[i] # ESC THEN 0
    ELSE LET e == MatchAlts(CodeSet[k], 1, s, i + 1)
         IN  IF e # 0 THEN e ELSE SequenceEnd(s, i, k + 1)

RECURSIVE SequencesDeleted(_, _)
\* s from position i on with every control sequence of the catalog deleted
\* and every other character kept.
SequencesDeleted(s, i) ==
    IF i > Len(s) THEN <<>>
    ELSE LET e == SequenceEnd(s, i, 1)
         IN  IF e # 0 THEN SequencesDeleted(s, e)
             ELSE <<s[i]>> \o SequencesDeleted(s, i + 1)

\* C8: the escape filter is idempotent: applying it to its own output
\* gives that output again.
C8_FilterIdempotent == StripAgainDone => refiltered = filtered

\* C9: the output of the escape filter is its input with every control
\* sequence of the catalog deleted, wherever it occurs, and every other
\* character kept.
C9_ExactlyTheSequencesDeleted == StripDone => filtered = SequencesDeleted(buf, 1)

====
